---- MODULE Spec2Model ----
(***************************************************************************)
(* Shot production pipeline of BigBanana-AI-Director.                      *)
(*                                                                         *)
(*   Spec        the refactored StageDirector (components/StageDirector):  *)
(*               keyframe / video generation, upload, copy, edit, batch.   *)
(*   LiveSpec    Spec with the fairness of the batch loop.                 *)
(*   SpecPrompt  the prompt assembler applied to bounded texts.            *)
(*   SpecLegacy  the batch loop of the single-file StageDirector.          *)
(*                                                                         *)
(* Text is a sequence of tokens (strings).  A token is one character of    *)
(* user text ("a" stands for any ordinary character, "\n" for a line       *)
(* break) or one literal chunk of a template.                              *)
(***************************************************************************)
EXTENDS Bags, FiniteSets, Integers, Sequences, TLC

VARIABLES
    project,        \* ProjectState: shots, visualStyle, language
    activeShotId,   \* useState activeShotId (0 = null)
    editModal,      \* useState editModal (Null or record)
    batchProgress,  \* useState batchProgress (Null or [current, total])
    batch,          \* position and locals of the running handleBatchGenerateImages
    imgCalls,       \* bag of generateImage calls awaited by handleGenerateKeyframe
    vidCalls,       \* bag of generateVideo calls awaited by handleGenerateVideo
    uploads,        \* bag of file dialogs opened by handleUploadKeyframeImage
    ops,            \* number of operations the user has started
    event,          \* the last handler step and what it showed to the user
    calc            \* arguments and result of a pure function under check

vars == <<project, activeShotId, editModal, batchProgress, batch,
          imgCalls, vidCalls, uploads, ops, event, calc>>

----------------------------------------------------------------------------
(* Bounds *)

NumShots == 2          \* shots in the project
MaxOps == 2            \* operations the user starts in one run

ShotIds == 1..NumShots
FrameTypes == {"start", "end"}
Times == {1, 2}                          \* the values Date.now() takes in generateId

Null == [null |-> TRUE]
NoUrl == "undefined"                  \* JS undefined for an optional url
EmptyId == [kind |-> "empty"]         \* the '' interval endKeyframeId

\* results of the image / video services and of FileReader
ImageUrls == {"img://1"}
VideoUrls == {"vid://1"}
FileUrls == {"data:file"}

----------------------------------------------------------------------------
(* Text *)

NL == "\n"
Marker == <<NL, NL, "Visual Style:">>

\* String.prototype.indexOf on token sequences, 0-based, -1 when absent
IndexOf(text, pat) ==
    LET hits == {i \in 0..(Len(text) - Len(pat)) :
                    SubSeq(text, i + 1, i + Len(pat)) = pat}
    IN IF hits = {} THEN -1
       ELSE CHOOSE i \in hits : \A j \in hits : i <= j

Includes(text, pat) == IndexOf(text, pat) >= 0

VISUAL_STYLE_PROMPTS ==
    [x \in {"live-action", "anime", "2d-animation", "3d-animation",
            "cyberpunk", "oil-painting"} |->
        CASE x = "live-action" -> "photorealistic, cinematic film quality, real human actors, professional cinematography, natural lighting, 8K resolution"
          [] x = "anime" -> "Japanese anime style, cel-shaded, vibrant colors, expressive eyes, dynamic poses, Studio Ghibli/Makoto Shinkai quality"
          [] x = "2d-animation" -> "classic 2D animation, hand-drawn style, Disney/Pixar quality, smooth lines, expressive characters, painterly backgrounds"
          [] x = "3d-animation" -> "high-quality 3D CGI animation, Pixar/DreamWorks style, subsurface scattering, detailed textures, stylized characters"
          [] x = "cyberpunk" -> "cyberpunk aesthetic, neon-lit, rain-soaked streets, holographic displays, high-tech low-life, Blade Runner style"
          [] x = "oil-painting" -> "oil painting style, visible brushstrokes, rich textures, classical art composition, museum quality fine art"]

\* String.prototype.toLowerCase, character by character
UpperCase == {"A", "B", "C", "D", "E", "F", "G", "H", "I", "J", "K", "L", "M", "N", "O", "P", "Q", "R", "S", "T", "U", "V", "W", "X", "Y", "Z"}

LowerChar(c) ==
    CASE c = "A" -> "a"
      [] c = "B" -> "b"
      [] c = "C" -> "c"
      [] c = "D" -> "d"
      [] c = "E" -> "e"
      [] c = "F" -> "f"
      [] c = "G" -> "g"
      [] c = "H" -> "h"
      [] c = "I" -> "i"
      [] c = "J" -> "j"
      [] c = "K" -> "k"
      [] c = "L" -> "l"
      [] c = "M" -> "m"
      [] c = "N" -> "n"
      [] c = "O" -> "o"
      [] c = "P" -> "p"
      [] c = "Q" -> "q"
      [] c = "R" -> "r"
      [] c = "S" -> "s"
      [] c = "T" -> "t"
      [] c = "U" -> "u"
      [] c = "V" -> "v"
      [] c = "W" -> "w"
      [] c = "X" -> "x"
      [] c = "Y" -> "y"
      [] c = "Z" -> "z"
      [] OTHER -> c

toLowerCase(text) == [i \in 1..Len(text) |-> LowerChar(text[i])]

\* the guides table of getCameraMovementCompositionGuide, in Object.entries order;
\* keys are character sequences, instructions are single tokens
guides ==
    <<
      [key |-> <<"h", "o", "r", "i", "z", "o", "n", "t", "a", "l", " ", "l", "e", "f", "t", " ", "s", "h", "o", "t">>,
       start |-> "Composition: Subject positioned on the right side of frame, with space on the left for movement.",
       end |-> "Composition: Subject moved to left side of frame, showing the journey from right to left."],
      [key |-> <<"h", "o", "r", "i", "z", "o", "n", "t", "a", "l", " ", "r", "i", "g", "h", "t", " ", "s", "h", "o", "t">>,
       start |-> "Composition: Subject positioned on the left side of frame, with space on the right for movement.",
       end |-> "Composition: Subject moved to right side of frame, showing the journey from left to right."],
      [key |-> <<"p", "a", "n", " ", "l", "e", "f", "t", " ", "s", "h", "o", "t">>,
       start |-> "Composition: Frame focused on right portion of scene, anticipating leftward pan.",
       end |-> "Composition: Frame reveals left portion of scene, completing the pan movement."],
      [key |-> <<"p", "a", "n", " ", "r", "i", "g", "h", "t", " ", "s", "h", "o", "t">>,
       start |-> "Composition: Frame focused on left portion of scene, anticipating rightward pan.",
       end |-> "Composition: Frame reveals right portion of scene, completing the pan movement."],
      [key |-> <<"z", "o", "o", "m", " ", "i", "n", " ", "s", "h", "o", "t">>,
       start |-> "Composition: Wide establishing shot showing full scene context, subject smaller in frame.",
       end |-> "Composition: Tight close-up on subject, filling frame with detail and intimacy."],
      [key |-> <<"z", "o", "o", "m", " ", "o", "u", "t", " ", "s", "h", "o", "t">>,
       start |-> "Composition: Close-up on subject, emphasizing details and emotion.",
       end |-> "Composition: Wide pullback revealing surrounding environment and context."],
      [key |-> <<"d", "o", "l", "l", "y", " ", "s", "h", "o", "t">>,
       start |-> "Composition: Initial framing with subject at specific distance and perspective.",
       end |-> "Composition: Changed perspective with subject closer/further, revealing depth and space."],
      [key |-> <<"t", "i", "l", "t", " ", "u", "p", " ", "s", "h", "o", "t">>,
       start |-> "Composition: Camera angle pointing downward or level, capturing lower portion of subject.",
       end |-> "Composition: Camera tilted upward, revealing height and vertical expanse above."],
      [key |-> <<"t", "i", "l", "t", " ", "d", "o", "w", "n", " ", "s", "h", "o", "t">>,
       start |-> "Composition: Camera angle pointing upward or level, emphasizing upper portion.",
       end |-> "Composition: Camera tilted downward, revealing lower elements and ground level."],
      [key |-> <<"v", "e", "r", "t", "i", "c", "a", "l", " ", "u", "p", " ", "s", "h", "o", "t">>,
       start |-> "Composition: Lower vertical position, subject at bottom of frame or ground level.",
       end |-> "Composition: Elevated position, subject risen vertically showing upward movement."],
      [key |-> <<"v", "e", "r", "t", "i", "c", "a", "l", " ", "d", "o", "w", "n", " ", "s", "h", "o", "t">>,
       start |-> "Composition: Elevated vertical position, subject higher in frame.",
       end |-> "Composition: Lower position, subject descended showing downward movement."],
      [key |-> <<"t", "r", "a", "c", "k", "i", "n", "g", " ", "s", "h", "o", "t">>,
       start |-> "Composition: Subject in frame with forward/lateral space for tracking movement.",
       end |-> "Composition: Subject tracked through space, maintaining visual relationship."],
      [key |-> <<"c", "i", "r", "c", "u", "l", "a", "r", " ", "s", "h", "o", "t">>,
       start |-> "Composition: Subject centered, camera at initial angle of circular path.",
       end |-> "Composition: Subject still centered, camera at opposite side revealing new angle."],
      [key |-> <<"3", "6", "0", "-", "d", "e", "g", "r", "e", "e", " ", "c", "i", "r", "c", "u", "l", "a", "r", " ", "s", "h", "o", "t">>,
       start |-> "Composition: Subject centered, camera beginning 360-degree orbit.",
       end |-> "Composition: Subject centered, camera completing full revolution from different angle."],
      [key |-> <<"l", "o", "w", " ", "a", "n", "g", "l", "e", " ", "s", "h", "o", "t">>,
       start |-> "Composition: Low camera angle looking upward, emphasizing height and power.",
       end |-> "Composition: Maintained low angle, subject towering with dramatic perspective."],
      [key |-> <<"h", "i", "g", "h", " ", "a", "n", "g", "l", "e", " ", "s", "h", "o", "t">>,
       start |-> "Composition: High camera angle looking downward, creating overview perspective.",
       end |-> "Composition: Maintained high angle, emphasizing scale and spatial relationships."],
      [key |-> <<"b", "i", "r", "d", "'", "s", " ", "e", "y", "e", " ", "v", "i", "e", "w", " ", "s", "h", "o", "t">>,
       start |-> "Composition: Directly overhead view, showing layout and patterns from above.",
       end |-> "Composition: Continued overhead perspective, revealing changed spatial arrangement."],
      [key |-> <<"p", "o", "v", " ", "s", "h", "o", "t">>,
       start |-> "Composition: First-person perspective from character's viewpoint.",
       end |-> "Composition: Maintained POV, showing what character sees after movement/action."],
      [key |-> <<"o", "v", "e", "r", " ", "t", "h", "e", " ", "s", "h", "o", "u", "l", "d", "e", "r", " ", "s", "h", "o", "t">>,
       start |-> "Composition: Frame includes foreground character's shoulder, looking at subject.",
       end |-> "Composition: Maintained over-shoulder framing, possibly with shifted focus or angle."],
      [key |-> <<"h", "a", "n", "d", "h", "e", "l", "d", " ", "s", "h", "o", "t">>,
       start |-> "Composition: Dynamic handheld framing with natural movement and energy.",
       end |-> "Composition: Continued handheld aesthetic with organic repositioning."],
      [key |-> <<"s", "t", "a", "t", "i", "c", " ", "s", "h", "o", "t">>,
       start |-> "Composition: Fixed camera position, stable framing throughout.",
       end |-> "Composition: Same camera position, only subject movement within frame."],
      [key |-> <<"r", "o", "t", "a", "t", "i", "n", "g", " ", "s", "h", "o", "t">>,
       start |-> "Composition: Subject in frame, camera beginning rotational movement.",
       end |-> "Composition: Subject with changed orientation due to camera rotation."],
      [key |-> <<"s", "l", "o", "w", " ", "m", "o", "t", "i", "o", "n", " ", "s", "h", "o", "t">>,
       start |-> "Composition: Action captured at beginning of slow-motion sequence.",
       end |-> "Composition: Action progressed, emphasizing graceful movement detail."],
      [key |-> <<"p", "a", "r", "a", "l", "l", "e", "l", " ", "t", "r", "a", "c", "k", "i", "n", "g", " ", "s", "h", "o", "t">>,
       start |-> "Composition: Subject with camera tracking parallel alongside.",
       end |-> "Composition: Maintained parallel relationship, subject moved through space."],
      [key |-> <<"d", "i", "a", "g", "o", "n", "a", "l", " ", "t", "r", "a", "c", "k", "i", "n", "g", " ", "s", "h", "o", "t">>,
       start |-> "Composition: Subject with camera on diagonal tracking path.",
       end |-> "Composition: Diagonal perspective maintained, dynamic spatial progression."],
      [key |-> <<"c", "a", "n", "t", "e", "d", " ", "s", "h", "o", "t">>,
       start |-> "Composition: Tilted horizon line creating dutch angle, dynamic unease.",
       end |-> "Composition: Maintained or adjusted dutch angle, emphasizing disorientation."],
      [key |-> <<"c", "i", "n", "e", "m", "a", "t", "i", "c", " ", "d", "o", "l", "l", "y", " ", "z", "o", "o", "m">>,
       start |-> "Composition: Initial balanced framing before vertigo effect.",
       end |-> "Composition: Distorted perspective with foreground/background relationship altered."]
    >>

\* a fallback that has no text for the start frame
GenericStartGuideMissing == ""

GenericStartGuide == "Composition: Initial frame composition suited for the camera movement."
GenericEndGuide == "Composition: Final frame composition showing the result of camera movement."

\* first table entry whose key contains the movement or is contained in it
getCameraMovementCompositionGuide(cameraMovement, frameType) ==
    LET movement == toLowerCase(cameraMovement)
        hits == {i \in 1..Len(guides) :
                    \/ Includes(movement, guides[i].key)
                    \/ Includes(guides[i].key, movement)}
    IN IF hits # {}
       THEN LET i == CHOOSE k \in hits : \A j \in hits : k <= j
            IN IF frameType = "start" THEN guides[i].start ELSE guides[i].end
       ELSE IF frameType = "start" THEN GenericStartGuide ELSE GenericEndGuide

\* the camera movements the shots of the model carry
PanLeft == <<"P", "a", "n", " ", "L", "e", "f", "t", " ", "S", "h", "o", "t">>
Crane == <<"C", "r", "a", "n", "e">>
Movements == {PanLeft, Crane}

\* the guide of every movement in use, looked up once
GuideOfMovement ==
    [m \in Movements |-> [t \in FrameTypes |-> getCameraMovementCompositionGuide(m, t)]]

cameraGuide(cameraMovement, frameType) ==
    IF cameraMovement \in Movements
    THEN GuideOfMovement[cameraMovement][frameType]
    ELSE getCameraMovementCompositionGuide(cameraMovement, frameType)

StylePrompt(visualStyle) ==
    IF visualStyle \in DOMAIN VISUAL_STYLE_PROMPTS
    THEN VISUAL_STYLE_PROMPTS[visualStyle]
    ELSE visualStyle

VisualRequirements == "Visual Requirements: High definition, cinematic composition, 16:9 widescreen format. Focus on lighting hierarchy, color saturation, and depth of field effects. Ensure the subject is clear and the background transitions naturally."

buildKeyframePrompt(basePrompt, visualStyle, cameraMovement, frameType) ==
    basePrompt
    \o Marker \o <<" ", StylePrompt(visualStyle)>>
    \o <<NL, NL, "Camera Movement: ">> \o cameraMovement
    \o <<" (", IF frameType = "start" THEN "Initial" ELSE "Final", " frame)", NL>>
    \o <<cameraGuide(cameraMovement, frameType)>>
    \o <<NL, NL, VisualRequirements>>

extractBasePrompt(fullPrompt, fallback) ==
    LET visualStyleIndex == IndexOf(fullPrompt, Marker)
    IN IF visualStyleIndex > 0
       THEN SubSeq(fullPrompt, 1, visualStyleIndex)
       ELSE IF fullPrompt # <<>> THEN fullPrompt ELSE fallback


----------------------------------------------------------------------------
(* Video prompt templates (constants.ts).  The Chinese literals are named  *)
(* in ASCII; LangZh stands for the language value written in Chinese.      *)

LangZh == "zh(Chinese script)"

VIDEO_PROMPT_TEMPLATES ==
    [sora2 |->
        [chinese |-> <<"sora2.chinese/intro+action label", "{actionSummary}",
                       "sora2.chinese/requirements", "{cameraMovement}",
                       "sora2.chinese/motion,style,details,language zh">>,
         english |-> <<"sora2.english/intro+action label", "{actionSummary}",
                       "sora2.english/requirements", "{cameraMovement}",
                       "sora2.english/motion,style,details,Language: Use ",
                       "{language}", " for voiceover and subtitles">>],
     veo |->
        [simple |-> <<"{actionSummary}", NL, NL, "veo/camera label",
                      "{cameraMovement}", NL, "veo/voice label: use ",
                      "{language}", "veo/voice suffix">>]]

DEFAULTS == [videoModel |-> "sora-2", batchGenerateDelay |-> 3000]

\* String.prototype.replace with a string pattern: the first occurrence only
Replace(text, placeholder, value) ==
    LET idx == IndexOf(text, <<placeholder>>)
    IN IF idx < 0 THEN text
       ELSE SubSeq(text, 1, idx) \o value \o SubSeq(text, idx + 2, Len(text))

\* lines 70, 72-75: the default language
IsChinese(language) == language = LangZh \/ language = "Chinese"

\* a choice of template that does not look at the language
VideoTemplateIgnoringLanguage(videoModel, language) ==
    IF videoModel = "sora-2" THEN VIDEO_PROMPT_TEMPLATES.sora2.english
    ELSE VIDEO_PROMPT_TEMPLATES.veo.simple

\* lines 72-75, 82: the template a call fills in
VideoTemplate(videoModel, language) ==
    IF videoModel = "sora-2"
    THEN IF IsChinese(language)
         THEN VIDEO_PROMPT_TEMPLATES.sora2.chinese
         ELSE VIDEO_PROMPT_TEMPLATES.sora2.english
    ELSE VIDEO_PROMPT_TEMPLATES.veo.simple

buildVideoPrompt(actionSummary, cameraMovement, videoModel, language) ==
    Replace(Replace(Replace(VideoTemplate(videoModel, language),
        "{actionSummary}", actionSummary),
        "{cameraMovement}", cameraMovement),
        "{language}",
        IF videoModel = "sora-2" THEN <<language>>
        ELSE <<IF IsChinese(language) THEN LangZh ELSE language>>)

----------------------------------------------------------------------------
(* Project data *)

Truthy(url) == url # NoUrl /\ url # ""

\* Array.prototype.find(k => k.type === type); Null when there is none
FindKeyframe(shot, type) ==
    LET idxs == {i \in 1..Len(shot.keyframes) : shot.keyframes[i].type = type}
    IN IF idxs = {} THEN Null
       ELSE shot.keyframes[CHOOSE i \in idxs : \A j \in idxs : i <= j]

\* keyframe?.imageUrl
ImageOf(kf) == IF kf = Null THEN NoUrl ELSE kf.imageUrl

\* keyframe?.visualPrompt
PromptOf(kf) == IF kf = Null THEN <<>> ELSE kf.visualPrompt

generateId(prefix, now) == [prefix EXCEPT !.t = now]

KfPrefix(shotId, type) == [kind |-> "kf", shot |-> shotId, type |-> type, t |-> 0]
IntPrefix(shotId) == [kind |-> "int", shot |-> shotId, type |-> "", t |-> 0]

createKeyframe(id, type, visualPrompt, imageUrl, status) ==
    [id |-> id, type |-> type, visualPrompt |-> visualPrompt,
     imageUrl |-> imageUrl, status |-> status]

\* an update that pushes the keyframe whether or not the type is there
updateKeyframeInShotByPush(shot, type, keyframe) ==
    [shot EXCEPT !.keyframes = Append(@, keyframe)]

updateKeyframeInShot(shot, type, keyframe) ==
    LET idxs == {i \in 1..Len(shot.keyframes) : shot.keyframes[i].type = type}
    IN IF idxs # {}
       THEN LET idx == CHOOSE i \in idxs : \A j \in idxs : i <= j
            IN [shot EXCEPT !.keyframes[idx] = keyframe]
       ELSE [shot EXCEPT !.keyframes = Append(@, keyframe)]

\* updateProject(prev => ({...prev, shots: prev.shots.map(s => s.id === shotId ? transform(s) : s)}))
\* with the transformed shot given as a function of the previous one
ShotsOf(p) == {p.shots[i] : i \in DOMAIN p.shots}

\* a map over the shots that forgets the test of the id
MapShotIgnoringId(p, shotId, transformed) ==
    [p EXCEPT !.shots = [i \in DOMAIN p.shots |-> transformed[p.shots[i]]]]

MapShot(p, shotId, transformed) ==
    [p EXCEPT !.shots = [i \in DOMAIN p.shots |->
        IF p.shots[i].id = shotId THEN transformed[p.shots[i]] ELSE p.shots[i]]]

ShotById(p, shotId) == p.shots[CHOOSE i \in DOMAIN p.shots : p.shots[i].id = shotId]

activeShotIndex ==
    LET idxs == {i \in DOMAIN project.shots : project.shots[i].id = activeShotId}
    IN IF idxs = {} THEN -1 ELSE (CHOOSE i \in idxs : TRUE) - 1

activeShot == IF activeShotIndex < 0 THEN Null ELSE project.shots[activeShotIndex + 1]

allStartFramesGenerated ==
    /\ Len(project.shots) > 0
    /\ \A i \in DOMAIN project.shots :
          Truthy(ImageOf(FindKeyframe(project.shots[i], "start")))

Event(op, shot, type, result, alert) ==
    [op |-> op, shot |-> shot, type |-> type, result |-> result, alert |-> alert]

NoAlert == "none"

----------------------------------------------------------------------------
(* Initial state: a project as it is opened in the director stage.        *)
(*   fresh     no shot has a keyframe yet                                  *)
(*   planned   every shot has the pair planned by the script stage,        *)
(*             pending, no image                                           *)
(*   started   the first shot has both keyframes completed, the others     *)
(*             have none                                                   *)
(*   produced  every shot has both keyframes completed                     *)

EditTexts == {<<>>, <<"e">>}
PlannedPrompt == <<"k">>

Summary == <<"a">>
StoredUrl == "img://0"

PlannedPair(s) ==
    <<createKeyframe(KfPrefix(s, "start"), "start", PlannedPrompt, NoUrl, "pending"),
      createKeyframe(KfPrefix(s, "end"), "end", PlannedPrompt, NoUrl, "pending")>>

CompletedPair(s) ==
    <<createKeyframe(KfPrefix(s, "start"), "start",
        buildKeyframePrompt(Summary, "live-action", PanLeft, "start"), StoredUrl, "completed"),
      createKeyframe(KfPrefix(s, "end"), "end",
        buildKeyframePrompt(Summary, "live-action", PanLeft, "end"), StoredUrl, "completed")>>

Scenarios == {"fresh", "planned", "started", "produced"}

InitKeyframes(scenario, s) ==
    CASE scenario = "fresh" -> <<>>
      [] scenario = "planned" -> PlannedPair(s)
      [] scenario = "started" -> IF s = 1 THEN CompletedPair(s) ELSE <<>>
      [] scenario = "produced" -> CompletedPair(s)

InitShots(scenario) ==
    [s \in ShotIds |->
        [id |-> s, actionSummary |-> Summary, cameraMovement |-> PanLeft,
         videoModel |-> NoUrl, keyframes |-> InitKeyframes(scenario, s),
         interval |-> Null]]

IdleBatch == [pc |-> "idle"]
NoCalc == [fn |-> "none"]

Init ==
    /\ \E scenario \in Scenarios :
          project = [shots |-> InitShots(scenario), visualStyle |-> "live-action",
                     language |-> LangZh]
    /\ activeShotId = 0
    /\ editModal = Null
    /\ batchProgress = Null
    /\ batch = IdleBatch
    /\ imgCalls = EmptyBag
    /\ vidCalls = EmptyBag
    /\ uploads = EmptyBag
    /\ ops = 0
    /\ event = Event("init", 0, "", "", NoAlert)
    /\ calc = NoCalc

----------------------------------------------------------------------------
(* The user.  A click on a shot card (setActiveShotId) is folded into the  *)
(* operation that follows it: selecting changes nothing but activeShotId.  *)
(* The batch overlay and the edit modal cover the workbench, so the user   *)
(* starts an operation only when neither is shown; calls already in flight *)
(* settle at any time.                                                     *)

UserCanAct ==
    /\ ops < MaxOps
    /\ batchProgress = Null
    /\ editModal = Null

\* the shot the workbench shows once the user has clicked card s
Shown(s) == ShotById(project, s)
IndexOfShot(s) == (CHOOSE i \in DOMAIN project.shots : project.shots[i].id = s) - 1

----------------------------------------------------------------------------
(* handleGenerateKeyframe *)

\* lines 61-69: the id and the prompt computed from the shot the handler was given
\* lines 64-66
KeyframeBasePrompt(shot, type) ==
    LET existingKf == FindKeyframe(shot, type)
    IN IF PromptOf(existingKf) # <<>>
       THEN extractBasePrompt(existingKf.visualPrompt, shot.actionSummary)
       ELSE shot.actionSummary

KeyframeCall(shot, type, now, byBatch) ==
    LET existingKf == FindKeyframe(shot, type)
        kfId == IF existingKf # Null THEN existingKf.id
                ELSE generateId(KfPrefix(shot.id, type), now)
        basePrompt == KeyframeBasePrompt(shot, type)
        visualStyle == project.visualStyle
    IN [shot |-> shot.id, type |-> type, kfId |-> kfId,
        prompt |-> buildKeyframePrompt(basePrompt, visualStyle, shot.cameraMovement, type),
        batch |-> byBatch]

\* a write that spreads the existing keyframe and so keeps its image
WriteKeyframeKeepingImage(p, c, imageUrl, status) ==
    LET transformed == [s \in ShotsOf(p) |->
            updateKeyframeInShot(s, c.type,
                createKeyframe(c.kfId, c.type, c.prompt,
                    IF imageUrl = NoUrl THEN ImageOf(FindKeyframe(s, c.type))
                    ELSE imageUrl,
                    status))]
    IN MapShot(p, c.shot, transformed)

\* lines 72-78, 84-90, 93-99: the three functional updates
WriteKeyframe(p, c, imageUrl, status) ==
    LET transformed == [s \in ShotsOf(p) |->
            updateKeyframeInShot(s, c.type,
                createKeyframe(c.kfId, c.type, c.prompt, imageUrl, status))]
    IN MapShot(p, c.shot, transformed)

\* the user presses generate / regenerate / retry on shot s
handleGenerateKeyframe(s, type) ==
    /\ UserCanAct
    /\ \E now \in Times :
         LET c == KeyframeCall(Shown(s), type, now, FALSE)
         IN /\ project' = WriteKeyframe(project, c, NoUrl, "generating")
            /\ imgCalls' = imgCalls (+) SetToBag({c})
    /\ activeShotId' = s
    /\ ops' = ops + 1
    /\ event' = Event("generateKeyframe", s, type, "generating", NoAlert)
    /\ UNCHANGED <<calc, editModal, batchProgress, batch, vidCalls, uploads>>

\* outcomes of generateImage: an image url, or an error which the
\* credential collaborator onApiKeyError does or does not report as handled
ImageOutcomes ==
    [ok : {TRUE}, url : ImageUrls, handled : {FALSE}]
    \cup [ok : {FALSE}, url : {NoUrl}, handled : BOOLEAN]

\* a catch block that only reports the error
SettleKeyframeWithoutFailedWrite(p, c, o) ==
    IF o.ok THEN WriteKeyframe(p, c, o.url, "completed") ELSE p

\* lines 82-99: the awaited call settles
SettleKeyframe(p, c, o) ==
    IF o.ok THEN WriteKeyframe(p, c, o.url, "completed")
    ELSE WriteKeyframe(p, c, NoUrl, "failed")

\* a catch block that shows nothing
SettleAlertNever(o) == NoAlert

\* lines 101-102
SettleAlert(o) ==
    IF o.ok \/ o.handled THEN NoAlert ELSE "Generation failed: e.message"

SettleResult(o) ==
    IF o.ok THEN "completed" ELSE IF o.handled THEN "handled" ELSE "failed"

imageResolved(c, o) ==
    /\ BagIn(c, imgCalls)
    /\ ~c.batch
    /\ project' = SettleKeyframe(project, c, o)
    /\ imgCalls' = imgCalls (-) SetToBag({c})
    /\ event' = Event("imageResolved", c.shot, c.type, SettleResult(o), SettleAlert(o))
    /\ UNCHANGED <<calc, activeShotId, editModal, batchProgress, batch, vidCalls, uploads, ops>>

----------------------------------------------------------------------------
(* handleUploadKeyframeImage.  The dialog is opened with the shot as shown *)
(* at that moment (lines 109-112, 141); input.onchange and the file read   *)
(* it awaits (lines 114-139) are one step, since both use only that shot.  *)

handleUploadKeyframeImage(s, type) ==
    /\ UserCanAct
    /\ uploads' = uploads (+) SetToBag({[shot |-> s, type |-> type,
                        existingKf |-> FindKeyframe(Shown(s), type),
                        actionSummary |-> Shown(s).actionSummary]})
    /\ activeShotId' = s
    /\ ops' = ops + 1
    /\ event' = Event("uploadOpen", s, type, "", NoAlert)
    /\ UNCHANGED <<calc, project, editModal, batchProgress, batch, imgCalls, vidCalls>>

\* what the user picks: nothing, an image FileReader cannot read, and a
\* text file or an image that it reads into a data url
Files ==
    [kind : {"none", "unreadable image"}, url : {NoUrl}]
    \cup [kind : {"text/plain", "image/png"}, url : FileUrls]

\* a type test that lets every file through
IsImageTypeOfAnyFile(file) == file.kind # "none"

\* line 118: file.type.startsWith('image/')
IsImageType(file) == file.kind \in {"image/png", "unreadable image"}

\* lines 125-135
UploadedProject(p, u, file, now) ==
    LET kfId == IF u.existingKf # Null THEN u.existingKf.id
                ELSE generateId(KfPrefix(u.shot, u.type), now)
        visualPrompt == IF PromptOf(u.existingKf) # <<>>
                        THEN u.existingKf.visualPrompt ELSE u.actionSummary
        transformed == [s \in ShotsOf(p) |->
            updateKeyframeInShot(s, u.type,
                createKeyframe(kfId, u.type, visualPrompt, file.url, "completed"))]
    IN MapShot(p, u.shot, transformed)

uploadOnChange(u, file) ==
    /\ BagIn(u, uploads)
    /\ uploads' = uploads (-) SetToBag({u})
    /\ IF file.kind = "none"
       THEN /\ project' = project
            /\ event' = Event("uploadChange", u.shot, u.type, "no file", NoAlert)
       ELSE IF ~IsImageType(file)
       THEN /\ project' = project
            /\ event' = Event("uploadChange", u.shot, u.type, "rejected",
                              "Please choose an image file!")
       ELSE IF file.url = NoUrl
       THEN /\ project' = project
            /\ event' = Event("uploadChange", u.shot, u.type, "read failed",
                              "Failed to read the file!")
       ELSE /\ \E now \in Times : project' = UploadedProject(project, u, file, now)
            /\ event' = Event("uploadChange", u.shot, u.type, "completed", NoAlert)
    /\ UNCHANGED <<calc, activeShotId, editModal, batchProgress, batch, imgCalls, vidCalls, ops>>

----------------------------------------------------------------------------
(* handleCopyPreviousEndFrame *)

\* a guard that asks for the keyframe, not for its image
CopyAcceptedWithAnyEndKeyframe(previousEndKf) == previousEndKf # Null

\* line 220: the copy needs the image of the previous end keyframe
CopyAccepted(previousEndKf) == Truthy(ImageOf(previousEndKf))

\* a copy that takes the image and leaves the prompt behind
CopiedKeyframeWithoutPrompt(id, previousEndKf) ==
    createKeyframe(id, "start", <<>>, previousEndKf.imageUrl, "completed")

\* line 232: the start keyframe made from the previous end keyframe
CopiedKeyframe(id, previousEndKf) ==
    createKeyframe(id, "start", previousEndKf.visualPrompt, previousEndKf.imageUrl,
                   "completed")

handleCopyPreviousEndFrame(s) ==
    /\ UserCanAct
    /\ activeShotId' = s
    /\ ops' = ops + 1
    /\ LET index == IndexOfShot(s)
           previousEndKf == IF index = 0 THEN Null
                            ELSE FindKeyframe(project.shots[index], "end")
       IN IF index = 0
          THEN /\ project' = project
               /\ event' = Event("copyPreviousEndFrame", s, "start", "first shot", NoAlert)
          ELSE IF ~CopyAccepted(previousEndKf)
          THEN /\ project' = project
               /\ event' = Event("copyPreviousEndFrame", s, "start", "rejected",
                                 "The previous shot has no end frame yet")
          ELSE /\ \E now \in Times :
                    LET existingStartKf == FindKeyframe(Shown(s), "start")
                        newStartKfId == IF existingStartKf # Null THEN existingStartKf.id
                                        ELSE generateId(KfPrefix(s, "start"), now)
                        transformed == [sh \in ShotsOf(project) |->
                            updateKeyframeInShot(sh, "start",
                                CopiedKeyframe(newStartKfId, previousEndKf))]
                    IN project' = MapShot(project, s, transformed)
               /\ event' = Event("copyPreviousEndFrame", s, "start", "completed", NoAlert)
    /\ UNCHANGED <<calc, editModal, batchProgress, batch, imgCalls, vidCalls, uploads>>

----------------------------------------------------------------------------
(* handleGenerateVideo *)

\* an end image borrowed from the shot before when the shot has none
VideoEndImageFromNeighbour(shot) ==
    IF Truthy(ImageOf(FindKeyframe(shot, "end")))
    THEN ImageOf(FindKeyframe(shot, "end"))
    ELSE LET i == CHOOSE k \in DOMAIN project.shots : project.shots[k].id = shot.id
         IN IF i = 1 THEN NoUrl ELSE ImageOf(FindKeyframe(project.shots[i - 1], "end"))

\* lines 149, 182: eKf?.imageUrl, the image of the shot's own end keyframe
VideoEndImage(shot) == ImageOf(FindKeyframe(shot, "end"))

\* lines 153-163: what the handler computes from the shot it was given
VideoCall(shot, now) ==
    LET sKf == FindKeyframe(shot, "start")
        eKf == FindKeyframe(shot, "end")
        selectedModel == IF shot.videoModel # NoUrl THEN shot.videoModel
                         ELSE DEFAULTS.videoModel
    IN [shot |-> shot.id,
        intervalId |-> IF shot.interval # Null THEN shot.interval.id
                       ELSE generateId(IntPrefix(shot.id), now),
        startKeyframeId |-> sKf.id,
        endKeyframeId |-> IF eKf # Null THEN eKf.id ELSE EmptyId,
        videoPrompt |-> buildVideoPrompt(shot.actionSummary, shot.cameraMovement,
                                         selectedModel, project.language),
        startImage |-> sKf.imageUrl,
        endImage |-> VideoEndImage(shot),
        model |-> selectedModel]

NewInterval(c, videoUrl, status) ==
    [id |-> c.intervalId, startKeyframeId |-> c.startKeyframeId,
     endKeyframeId |-> c.endKeyframeId, duration |-> 10, motionStrength |-> 5,
     videoPrompt |-> c.videoPrompt, videoUrl |-> videoUrl, status |-> status]

\* a request that starts every attempt from a new interval
VideoGeneratingFromScratch(p, c) ==
    LET transformed == [s \in ShotsOf(p) |->
            [s EXCEPT !.interval = NewInterval(c, NoUrl, "generating")]]
    IN MapShot(p, c.shot, transformed)

\* lines 165-176
VideoGenerating(p, c) ==
    LET transformed == [s \in ShotsOf(p) |->
            [s EXCEPT !.interval =
                IF s.interval # Null
                THEN [s.interval EXCEPT !.status = "generating",
                                        !.videoPrompt = c.videoPrompt]
                ELSE NewInterval(c, NoUrl, "generating")]]
    IN MapShot(p, c.shot, transformed)

\* lines 186-198
VideoCompleted(p, c, videoUrl) ==
    LET transformed == [s \in ShotsOf(p) |->
            [s EXCEPT !.interval =
                IF s.interval # Null
                THEN [s.interval EXCEPT !.videoUrl = videoUrl, !.status = "completed"]
                ELSE NewInterval(c, videoUrl, "completed")]]
    IN MapShot(p, c.shot, transformed)

\* a catch block that discards the interval
VideoFailedDroppingInterval(p, c) ==
    LET transformed == [s \in ShotsOf(p) |-> [s EXCEPT !.interval = Null]]
    IN MapShot(p, c.shot, transformed)

\* lines 201-204
VideoFailed(p, c) ==
    LET transformed == [s \in ShotsOf(p) |->
            [s EXCEPT !.interval =
                IF s.interval # Null
                THEN [s.interval EXCEPT !.status = "failed"]
                ELSE Null]]
    IN MapShot(p, c.shot, transformed)

\* a guard that asks for the keyframe, not for its image
VideoAcceptedWithAnyStartKeyframe(shot) == FindKeyframe(shot, "start") # Null

\* line 151: the request is accepted only with a start keyframe image
VideoAccepted(shot) == Truthy(ImageOf(FindKeyframe(shot, "start")))

handleGenerateVideo(s) ==
    /\ UserCanAct
    /\ activeShotId' = s
    /\ ops' = ops + 1
    /\ IF ~VideoAccepted(Shown(s))
       THEN /\ event' = Event("generateVideo", s, "", "rejected",
                              "Please generate the start frame first!")
            /\ UNCHANGED <<calc, project, vidCalls>>
       ELSE /\ \E now \in Times :
                 LET c == VideoCall(Shown(s), now)
                 IN /\ project' = VideoGenerating(project, c)
                    /\ vidCalls' = vidCalls (+) SetToBag({c})
            /\ event' = Event("generateVideo", s, "", "generating", NoAlert)
    /\ UNCHANGED <<calc, editModal, batchProgress, batch, imgCalls, uploads>>

VideoOutcomes ==
    [ok : {TRUE}, url : VideoUrls, handled : {FALSE}]
    \cup [ok : {FALSE}, url : {NoUrl}, handled : BOOLEAN]

videoResolved(c, o) ==
    /\ BagIn(c, vidCalls)
    /\ vidCalls' = vidCalls (-) SetToBag({c})
    /\ project' = IF o.ok THEN VideoCompleted(project, c, o.url)
                  ELSE VideoFailed(project, c)
    /\ event' = Event("videoResolved", c.shot, "", SettleResult(o),
                      IF o.ok \/ o.handled THEN NoAlert
                      ELSE "Video generation failed: e.message")
    /\ UNCHANGED <<calc, activeShotId, editModal, batchProgress, batch, imgCalls, uploads, ops>>

----------------------------------------------------------------------------
(* The edit modal: lines 402, 417, 421-424 open it, line 446 types into    *)
(* it, line 433 closes it, handleSaveEdit applies it to the active shot.   *)

openEditModal(s, kind, frameType) ==
    /\ UserCanAct
    /\ activeShotId' = s
    /\ ops' = ops + 1
    /\ CASE kind = "action" ->
              /\ frameType = "start"
              /\ editModal' = [type |-> "action", value |-> Shown(s).actionSummary,
                               frameType |-> ""]
         [] kind = "keyframe" ->
              \* the button is there for a keyframe that has a prompt
              /\ PromptOf(FindKeyframe(Shown(s), frameType)) # <<>>
              /\ editModal' = [type |-> "keyframe",
                               value |-> FindKeyframe(Shown(s), frameType).visualPrompt,
                               frameType |-> frameType]
         [] kind = "video" ->
              /\ frameType = "start"
              /\ editModal' = [type |-> "video",
                               value |-> IF Shown(s).interval = Null THEN <<>>
                                         ELSE Shown(s).interval.videoPrompt,
                               frameType |-> ""]
    /\ event' = Event("openEditModal", s, frameType, kind, NoAlert)
    /\ UNCHANGED <<calc, project, batchProgress, batch, imgCalls, vidCalls, uploads>>

editModalOnChange(value) ==
    /\ editModal # Null
    /\ editModal.value # value
    /\ editModal' = [editModal EXCEPT !.value = value]
    /\ event' = Event("editModalOnChange", activeShotId, editModal.frameType,
                      editModal.type, NoAlert)
    /\ UNCHANGED <<calc, project, activeShotId, batchProgress, batch, imgCalls, vidCalls,
                   uploads, ops>>

editModalOnClose ==
    /\ editModal # Null
    /\ editModal' = Null
    /\ event' = Event("editModalOnClose", activeShotId, editModal.frameType,
                      editModal.type, NoAlert)
    /\ UNCHANGED <<calc, project, activeShotId, batchProgress, batch, imgCalls, vidCalls,
                   uploads, ops>>

\* a save that writes the value into every keyframe of the shot
SavedShotOfEveryKeyframe(s, modal) ==
    CASE modal.type = "keyframe" ->
            [s EXCEPT !.keyframes = [i \in DOMAIN s.keyframes |->
                [s.keyframes[i] EXCEPT !.visualPrompt = modal.value]]]
      [] modal.type = "action" -> [s EXCEPT !.actionSummary = modal.value]
      [] modal.type = "video" ->
            [s EXCEPT !.interval =
                IF s.interval # Null
                THEN [s.interval EXCEPT !.videoPrompt = modal.value]
                ELSE Null]

\* lines 289-309: the update of the active shot for each modal type
SavedShot(s, modal) ==
    CASE modal.type = "action" -> [s EXCEPT !.actionSummary = modal.value]
      [] modal.type = "keyframe" ->
            [s EXCEPT !.keyframes = [i \in DOMAIN s.keyframes |->
                IF s.keyframes[i].type = modal.frameType
                THEN [s.keyframes[i] EXCEPT !.visualPrompt = modal.value]
                ELSE s.keyframes[i]]]
      [] modal.type = "video" ->
            [s EXCEPT !.interval =
                IF s.interval # Null
                THEN [s.interval EXCEPT !.videoPrompt = modal.value]
                ELSE Null]

handleSaveEdit ==
    /\ editModal # Null
    /\ activeShot # Null
    /\ LET transformed == [s \in ShotsOf(project) |-> SavedShot(s, editModal)]
       IN project' = MapShot(project, activeShot.id, transformed)
    /\ editModal' = Null
    /\ event' = Event("saveEdit", activeShotId, editModal.frameType,
                      editModal.type, NoAlert)
    /\ UNCHANGED <<calc, activeShotId, batchProgress, batch, imgCalls, vidCalls, uploads, ops>>

----------------------------------------------------------------------------
(* handleBatchGenerateImages.  batch holds the locals of the running loop: *)
(* shotsToProcess, i, isRegenerate, and where the loop is suspended:       *)
(* "delay" at line 260, "await" at line 270.                               *)

LacksStartImage(shot) == ~Truthy(ImageOf(FindKeyframe(shot, "start")))

\* lines 241-249
ShotsToProcess(p, isRegenerate) ==
    IF isRegenerate THEN p.shots ELSE SelectSeq(p.shots, LacksStartImage)

\* a loop without the delay
BatchDelayNever(i) == FALSE

\* line 260: a delay precedes every call but the first
BatchDelayBefore(i) == i > 0

\* lines 91-103 seen from line 270: handleGenerateKeyframe catches every
\* error of generateImage and returns, so the awaited promise never rejects
KeyframeRejects(o) == FALSE

\* a catch block that gives up on any failed shot
BatchAbortsOnAnyFailure(o) == ~o.ok

\* lines 271-277: the loop is left when the awaited handler threw an error
\* that onApiKeyError reports as handled
BatchAborts(o) == KeyframeRejects(o) /\ o.handled

Loop(p, calls, b, progress) ==
    [project |-> p, imgCalls |-> calls, batch |-> b, batchProgress |-> progress]

\* lines 262-270: progress, then the synchronous part of handleGenerateKeyframe
BatchIssue(p, calls, b, i, now) ==
    LET c == KeyframeCall(b.shots[i + 1], "start", now, TRUE)
    IN Loop(WriteKeyframe(p, c, NoUrl, "generating"),
            calls (+) SetToBag({c}),
            [b EXCEPT !.pc = "await", !.i = i],
            [current |-> i + 1, total |-> Len(b.shots)])

\* lines 259-260, 280: the head of iteration i, up to the next suspension
BatchEnter(p, calls, b, i, progress, now) ==
    IF i >= Len(b.shots)
    THEN Loop(p, calls, IdleBatch, Null)
    ELSE IF BatchDelayBefore(i)
    THEN Loop(p, calls, [b EXCEPT !.pc = "delay", !.i = i], progress)
    ELSE BatchIssue(p, calls, b, i, now)

BatchTakes(r) ==
    /\ project' = r.project
    /\ imgCalls' = r.imgCalls
    /\ batch' = r.batch
    /\ batchProgress' = r.batchProgress

\* the toolbar button; confirmed is the answer to window.confirm
handleBatchGenerateImages(confirmed) ==
    /\ UserCanAct
    /\ batch.pc = "idle"
    /\ ops' = ops + 1
    /\ LET isRegenerate == allStartFramesGenerated
           shotsToProcess == ShotsToProcess(project, isRegenerate)
           b == [pc |-> "start", shots |-> shotsToProcess, i |-> 0,
                 isRegenerate |-> isRegenerate]
       IN IF (isRegenerate /\ ~confirmed) \/ Len(shotsToProcess) = 0
          THEN /\ ~confirmed
               /\ event' = Event("batchStart", 0, "start", "declined", NoAlert)
               /\ UNCHANGED <<calc, project, imgCalls, batch, batchProgress>>
          ELSE /\ confirmed
               /\ \E now \in Times :
                    BatchTakes(BatchEnter(project, imgCalls, b, 0,
                        [current |-> 0, total |-> Len(shotsToProcess)], now))
               /\ event' = Event("batchStart", 0, "start",
                                 IF isRegenerate THEN "regenerateAll" ELSE "fillMissing",
                                 NoAlert)
    /\ UNCHANGED <<calc, activeShotId, editModal, vidCalls, uploads>>

\* line 260 resumes: the timer of delay(DEFAULTS.batchGenerateDelay) fires
batchDelayElapsed ==
    /\ batch.pc = "delay"
    /\ \E now \in Times :
         BatchTakes(BatchIssue(project, imgCalls, batch, batch.i, now))
    /\ event' = Event("batchDelayElapsed", batch.shots[batch.i + 1].id, "start",
                      "generating", NoAlert)
    /\ UNCHANGED <<calc, activeShotId, editModal, vidCalls, uploads, ops>>

\* line 270 resumes: the call of the batch settles (lines 82-103), then
\* lines 271-277 and the rest of the loop up to its next suspension
batchImageResolved(c, o) ==
    /\ BagIn(c, imgCalls)
    /\ c.batch
    /\ batch.pc = "await"
    /\ LET settled == SettleKeyframe(project, c, o)
           calls == imgCalls (-) SetToBag({c})
       IN IF BatchAborts(o)
          THEN BatchTakes(Loop(settled, calls, IdleBatch, Null))
          ELSE \E now \in Times :
                 BatchTakes(BatchEnter(settled, calls, batch, batch.i + 1,
                                       batchProgress, now))
    /\ event' = Event("batchImageResolved", c.shot, "start", SettleResult(o),
                      SettleAlert(o))
    /\ UNCHANGED <<calc, activeShotId, editModal, vidCalls, uploads, ops>>

----------------------------------------------------------------------------

Next ==
    \/ \E s \in ShotIds, type \in FrameTypes : handleGenerateKeyframe(s, type)
    \/ \E c \in BagToSet(imgCalls), o \in ImageOutcomes : imageResolved(c, o)
    \/ \E s \in ShotIds, type \in FrameTypes : handleUploadKeyframeImage(s, type)
    \/ \E u \in BagToSet(uploads), file \in Files : uploadOnChange(u, file)
    \/ \E s \in ShotIds : handleCopyPreviousEndFrame(s)
    \/ \E s \in ShotIds : handleGenerateVideo(s)
    \/ \E c \in BagToSet(vidCalls), o \in VideoOutcomes : videoResolved(c, o)
    \/ \E s \in ShotIds, kind \in {"action", "keyframe", "video"}, type \in FrameTypes :
          openEditModal(s, kind, type)
    \/ \E value \in EditTexts : editModalOnChange(value)
    \/ editModalOnClose
    \/ handleSaveEdit
    \/ \E confirmed \in BOOLEAN : handleBatchGenerateImages(confirmed)
    \/ batchDelayElapsed
    \/ \E c \in BagToSet(imgCalls), o \in ImageOutcomes : batchImageResolved(c, o)

Spec == Init /\ [][Next]_vars

----------------------------------------------------------------------------
(* Properties of the refactored StageDirector *)

KeyframeAt(p, s, type) == FindKeyframe(ShotById(p, s), type)
IntervalAt(p, s) == ShotById(p, s).interval

BatchCalls(calls) == {c \in BagToSet(calls) : c.batch}
BatchCallCount(calls) == BagCardinality([c \in BatchCalls(calls) |-> calls[c]])

\* C1: in every reachable state every keyframe of every shot has an
\* imageUrl if and only if its status is 'completed'.
C1_ImageIffCompleted ==
    \A i \in DOMAIN project.shots :
        \A k \in 1..Len(project.shots[i].keyframes) :
            LET kf == project.shots[i].keyframes[k]
            IN (kf.imageUrl # NoUrl) <=> (kf.status = "completed")

\* a regeneration in flight next to a keyframe that a generation completed
C1_Witness ==
    /\ event.op = "imageResolved"
    /\ event.result = "completed"
    /\ \E s \in ShotIds, type \in FrameTypes :
          /\ KeyframeAt(project, s, type) # Null
          /\ KeyframeAt(project, s, type).status = "generating"
    /\ \E s \in ShotIds, type \in FrameTypes :
          /\ KeyframeAt(project, s, type) # Null
          /\ KeyframeAt(project, s, type).imageUrl \in ImageUrls

\* C2: handleGenerateVideo on a shot whose start keyframe is absent or has
\* no image shows the validation message, issues no video call and leaves
\* the whole project as it was.
C2_VideoRejectedWithoutStartImage ==
    [][\A s \in ShotIds :
          ( /\ ops' = ops + 1
            /\ event'.op = "generateVideo"
            /\ event'.shot = s
            /\ ~Truthy(ImageOf(KeyframeAt(project, s, "start"))) )
          => /\ event'.alert = "Please generate the start frame first!"
             /\ vidCalls' = vidCalls
             /\ project' = project]_vars

\* a request on a shot whose planned start keyframe has no image yet
C2_Witness ==
    /\ event.op = "generateVideo"
    /\ event.result = "rejected"
    /\ KeyframeAt(project, event.shot, "start") # Null
    /\ KeyframeAt(project, event.shot, "start").status = "pending"

\* C3: a generate call on a shot with no keyframe of the requested role
\* writes that keyframe as 'generating' with the assembled prompt and no
\* image while its call is in flight; the call settles the keyframe it was
\* started for as 'completed' with the returned url, or as 'failed'; and
\* right after the generate step, before anything else, it is 'generating'.
C3_GenerateLifecycle ==
    [][/\ \A s \in ShotIds, type \in FrameTypes :
            ( /\ KeyframeAt(project, s, type) = Null
              /\ handleGenerateKeyframe(s, type) )
            => LET kf == KeyframeAt(project', s, type)
               IN /\ kf # Null
                  /\ kf.status = "generating"
                  /\ kf.imageUrl = NoUrl
                  /\ kf.visualPrompt =
                        buildKeyframePrompt(ShotById(project, s).actionSummary,
                            project.visualStyle, ShotById(project, s).cameraMovement, type)
                  /\ \E c \in BagToSet(imgCalls') :
                        /\ c.shot = s /\ c.type = type /\ c.prompt = kf.visualPrompt
                        /\ CopiesIn(c, imgCalls') = CopiesIn(c, imgCalls) + 1
       /\ \A c \in BagToSet(imgCalls), o \in ImageOutcomes :
            (imageResolved(c, o) \/ batchImageResolved(c, o))
            => LET kf == KeyframeAt(project', c.shot, c.type)
               IN /\ kf # Null
                  /\ kf.visualPrompt = c.prompt
                  /\ IF o.ok
                     THEN kf.status = "completed" /\ kf.imageUrl = o.url
                     ELSE kf.status = "failed" /\ kf.imageUrl = NoUrl
       /\ \A c \in BagToSet(imgCalls), o \in ImageOutcomes :
            ( /\ event.op = "generateKeyframe"
              /\ event.shot = c.shot /\ event.type = c.type
              /\ imageResolved(c, o) )
            => /\ KeyframeAt(project, c.shot, c.type).status = "generating"
               /\ KeyframeAt(project', c.shot, c.type).status \in {"completed", "failed"}
      ]_vars

\* the first keyframe of a shot, generated from nothing and completed
C3_Witness ==
    /\ event.op = "imageResolved"
    /\ event.result = "completed"
    /\ Len(ShotById(project, event.shot).keyframes) = 1
    /\ KeyframeAt(project, event.shot, event.type).status = "completed"
    /\ KeyframeAt(project, event.shot, event.type).imageUrl = "img://1"

\* C4: an accepted video request leaves the interval 'generating' with the
\* built prompt while its call is in flight; a successful call leaves it
\* 'completed' with the returned clip; a failed call leaves an interval
\* with status 'failed', also on the first attempt of a shot.
C4_VideoLifecycle ==
    [][/\ \A s \in ShotIds :
            ( /\ handleGenerateVideo(s)
              /\ Truthy(ImageOf(KeyframeAt(project, s, "start"))) )
            => LET shot == ShotById(project, s)
                   int == IntervalAt(project', s)
               IN /\ int # Null
                  /\ int.status = "generating"
                  /\ int.videoPrompt =
                        buildVideoPrompt(shot.actionSummary, shot.cameraMovement,
                                         "sora-2", project.language)
                  /\ \E c \in BagToSet(vidCalls') :
                        /\ c.shot = s /\ c.videoPrompt = int.videoPrompt
                        /\ CopiesIn(c, vidCalls') = CopiesIn(c, vidCalls) + 1
       /\ \A c \in BagToSet(vidCalls), o \in VideoOutcomes :
            videoResolved(c, o)
            => LET int == IntervalAt(project', c.shot)
               IN /\ int # Null
                  /\ IF o.ok
                     THEN int.status = "completed" /\ int.videoUrl = o.url
                     ELSE int.status = "failed"
      ]_vars

\* the first video attempt of a shot has failed and its interval is there
C4_Witness ==
    /\ event.op = "videoResolved"
    /\ event.result \in {"failed", "handled"}
    /\ IntervalAt(project, event.shot) # Null
    /\ IntervalAt(project, event.shot).status = "failed"
    /\ IntervalAt(project, event.shot).videoUrl = NoUrl

\* the batch loop starts the call of a shot in this step
BatchReaches(s) ==
    /\ batch'.pc = "await"
    /\ batch.pc # "await" \/ batch.i # batch'.i
    /\ batch'.shots[batch'.i + 1].id = s

StartCompleted(p, s) ==
    /\ KeyframeAt(p, s, "start") # Null
    /\ KeyframeAt(p, s, "start").status = "completed"

\* C6: a batch run in fillMissing mode never starts a call for, and never
\* overwrites, a shot whose start keyframe is completed in the project at
\* the moment the loop reaches that shot.
C6_FillMissingSkipsCompleted ==
    [][\A s \in ShotIds :
          (BatchReaches(s) /\ ~batch'.isRegenerate /\ StartCompleted(project, s))
          => /\ KeyframeAt(project', s, "start") = KeyframeAt(project, s, "start")
             /\ BatchCallCount(imgCalls') = 0]_vars

\* C7: when a call of the batch loop fails with an error that
\* onApiKeyError reports as handled, the run is over in that very step:
\* the loop is left, no call of the batch is pending or started, and the
\* progress indicator is null.
C7_HandledFailureAbortsBatch ==
    [][\A c \in BagToSet(imgCalls) :
          batchImageResolved(c, [ok |-> FALSE, url |-> NoUrl, handled |-> TRUE])
          => /\ batch'.pc = "idle"
             /\ batchProgress' = Null
             /\ BatchCallCount(imgCalls') = 0]_vars

\* C8: the batch loop has at most one call in flight, the one of the shot
\* at its index; the first call starts with the button press, without a
\* delay; every later call starts when a delay ends, and a delay starts
\* only when the call of the shot before has settled; the subset and its
\* order do not change during the run.
C8_BatchOneAtATimeInOrder ==
    [][/\ BatchCallCount(imgCalls') <= 1
       /\ (batch'.pc = "await") <=> (BatchCallCount(imgCalls') = 1)
       /\ batch'.pc = "await"
            => \A c \in BatchCalls(imgCalls') :
                  c.shot = batch'.shots[batch'.i + 1].id
       /\ (batch'.pc = "await" /\ (batch.pc # "await" \/ batch.i # batch'.i))
            => \/ batch.pc = "idle" /\ batch'.i = 0
               \/ /\ batch.pc = "delay"
                  /\ batch'.i = batch.i
                  /\ batch.i > 0
                  /\ BatchCallCount(imgCalls) = 0
       /\ (batch'.pc = "delay" /\ batch.pc # "delay")
            => /\ batch.pc = "await"
               /\ batch'.i = batch.i + 1
               /\ BatchCallCount(imgCalls) = 1
               /\ BatchCallCount(imgCalls') = 0
       /\ (batch.pc # "idle" /\ batch'.pc # "idle")
            => batch'.shots = batch.shots
      ]_vars

\* the second call of a run has just been started, after the delay
C8_Witness ==
    /\ event.op = "batchDelayElapsed"
    /\ batch.pc = "await"
    /\ batch.i = 1
    /\ BatchCallCount(imgCalls) = 1

----------------------------------------------------------------------------
(* The batch run with a service that answers: every call of the loop      *)
(* settles, and the timer of delay() fires.                               *)

LiveSpec ==
    /\ Spec
    /\ WF_vars(batchDelayElapsed)
    /\ WF_vars(\E c \in BagToSet(imgCalls), o \in ImageOutcomes : batchImageResolved(c, o))

\* C9: a batch run always finishes when its calls settle: a failure that is
\* not reported as handled on a shot that is not the last one leads to the
\* delay before the next shot; the calls are started for the indices 0,
\* 1, 2, ... of the subset, each once, and the run ends only after the last
\* one; progress.current is the index of the current call plus one, so it
\* goes from 1 to total in steps of one with total fixed; and the progress
\* indicator becomes null again.
C9_BatchFinishes ==
    /\ [][/\ \A c \in BagToSet(imgCalls) :
               ( /\ batchImageResolved(c, [ok |-> FALSE, url |-> NoUrl, handled |-> FALSE])
                 /\ batch.i + 1 < Len(batch.shots) )
               => batch'.pc = "delay" /\ batch'.i = batch.i + 1
          /\ (batch'.pc = "await" /\ (batch.pc # "await" \/ batch.i # batch'.i))
               => /\ batch'.i = (IF batch.pc = "idle" THEN 0 ELSE batch.i)
                  /\ batchProgress' = [current |-> batch'.i + 1,
                                       total |-> Len(batch'.shots)]
          /\ (batch'.pc = "delay" /\ batch.pc # "delay")
               => batch'.i = batch.i + 1 /\ batchProgress' = batchProgress
          /\ (batch.pc # "idle" /\ batch'.pc = "idle")
               => batch.pc = "await" /\ batch.i + 1 = Len(batch.shots)
          /\ (batchProgress = Null /\ batchProgress' # Null)
               => batchProgress'.current = 1
          /\ (batchProgress # Null /\ batchProgress' # Null)
               => /\ batchProgress'.total = batchProgress.total
                  /\ batchProgress'.current \in
                        {batchProgress.current, batchProgress.current + 1}
                  /\ batchProgress'.current <= batchProgress'.total
          /\ (batchProgress # Null /\ batchProgress' = Null)
               => batchProgress.current = batchProgress.total
          /\ (batchProgress = Null) <=> (batch.pc = "idle")
         ]_vars
    /\ (batchProgress # Null) ~> (batchProgress = Null)

\* a failed shot of the run, and the loop on its way to the next shot
C9_Witness ==
    /\ event.op = "batchImageResolved"
    /\ event.result = "failed"
    /\ batch.pc = "delay"
    /\ batchProgress # Null

----------------------------------------------------------------------------
(* Prompt layering on its own: one shot, one keyframe role, and the       *)
(* keyframe generated again and again with the shot data unchanged.  Each *)
(* step is lines 61-69 of handleGenerateKeyframe followed by the write of *)
(* lines 84-90, on the shot as the previous step left it.                 *)

MaxBaseLen == 3
MaxRegen == 3

BaseChars == {"a", NL, "Visual Style:"}

RECURSIVE TextsUpTo(_)
TextsUpTo(n) ==
    IF n = 0 THEN {<<>>}
    ELSE LET shorter == TextsUpTo(n - 1)
         IN shorter \cup {Append(t, ch) : t \in shorter, ch \in BaseChars}

BaseTexts == TextsUpTo(MaxBaseLen)

Styles == {"live-action", "noir"}

PromptShot(actionSummary, cameraMovement, keyframes) ==
    [id |-> 1, actionSummary |-> actionSummary, cameraMovement |-> cameraMovement,
     videoModel |-> NoUrl, keyframes |-> keyframes, interval |-> Null]

InitPrompt ==
    /\ \E actionSummary \in BaseTexts, cameraMovement \in Movements,
          type \in FrameTypes, planned \in BOOLEAN :
         calc = [fn |-> "regenerate",
                 shot |-> PromptShot(actionSummary, cameraMovement,
                            IF planned
                            THEN <<createKeyframe(generateId(KfPrefix(1, type), 1), type,
                                                  PlannedPrompt, NoUrl, "pending")>>
                            ELSE <<>>),
                 type |-> type, base |-> <<>>, first |-> <<>>, n |-> 0]
    /\ \E visualStyle \in Styles :
         project = [shots |-> <<>>, visualStyle |-> visualStyle, language |-> LangZh]
    /\ activeShotId = 0
    /\ editModal = Null
    /\ batchProgress = Null
    /\ batch = IdleBatch
    /\ imgCalls = EmptyBag
    /\ vidCalls = EmptyBag
    /\ uploads = EmptyBag
    /\ ops = 0
    /\ event = Event("init", 0, "", "", NoAlert)

\* one generation of the keyframe that succeeds: lines 61-69 and 84-90
regenerateKeyframe ==
    /\ calc.fn = "regenerate"
    /\ calc.n < MaxRegen
    /\ \E now \in Times, url \in ImageUrls :
         LET c == KeyframeCall(calc.shot, calc.type, now, FALSE)
         IN calc' = [calc EXCEPT
                        !.shot = updateKeyframeInShot(calc.shot, calc.type,
                                    createKeyframe(c.kfId, c.type, c.prompt, url, "completed")),
                        !.base = KeyframeBasePrompt(calc.shot, calc.type),
                        !.first = IF calc.n = 0 THEN c.prompt ELSE calc.first,
                        !.n = calc.n + 1]
    /\ event' = Event("regenerateKeyframe", 1, calc.type, "completed", NoAlert)
    /\ UNCHANGED <<project, activeShotId, editModal, batchProgress, batch,
                   imgCalls, vidCalls, uploads, ops>>

NextPrompt == regenerateKeyframe

SpecPrompt == InitPrompt /\ [][NextPrompt]_vars

\* C5: after every generation of the keyframe, extractBasePrompt gives back
\* from the stored prompt the base narrative that prompt was assembled from,
\* and the stored prompt is the one the first generation stored: it never
\* changes and never grows.
C5_LayeringIdempotent ==
    (calc.fn = "regenerate" /\ calc.n >= 1)
    => LET stored == FindKeyframe(calc.shot, calc.type).visualPrompt
       IN /\ extractBasePrompt(stored, calc.shot.actionSummary) = calc.base
          /\ stored = calc.first
          /\ Len(stored) <= Len(calc.first)

----------------------------------------------------------------------------
(* The single-file StageDirector.  Its keyframe and video handlers write  *)
(* through functional updates like the ones above; its batch loop calls   *)
(* generateImage itself, keeps the results in the local currentShots, a   *)
(* copy of the shots of the render the button was pressed in, and hands   *)
(* that array to updateProject after each shot.  batch holds the locals   *)
(* of the loop, currentShots among them.                                  *)

\* lines 297-306: the table of the keyframe handler
legacyStylePrompt(visualStyle) ==
    IF visualStyle = "anime"
    THEN "Japanese anime style, cel-shaded, vibrant colors, expressive eyes, dynamic poses, Studio Ghibali/Makoto Shinkai quality"
    ELSE StylePrompt(visualStyle)

\* lines 275-312: what the handler computes from the shot it was given
legacyKeyframeCall(shot, type, now) ==
    LET existingKf == FindKeyframe(shot, type)
        kfId == IF existingKf # Null THEN existingKf.id
                ELSE generateId(KfPrefix(shot.id, type), now)
        visualStyleIndex == IndexOf(PromptOf(existingKf), Marker)
        basePrompt == IF PromptOf(existingKf) # <<>>
                      THEN IF visualStyleIndex > 0
                           THEN SubSeq(existingKf.visualPrompt, 1, visualStyleIndex)
                           ELSE existingKf.visualPrompt
                      ELSE shot.actionSummary
        prompt == basePrompt
                  \o Marker \o <<" ", legacyStylePrompt(project.visualStyle)>>
                  \o <<NL, NL, "Camera Movement: ">> \o shot.cameraMovement
                  \o <<" (", IF type = "start" THEN "Initial" ELSE "Final", " frame)", NL>>
                  \o <<cameraGuide(shot.cameraMovement, type)>>
                  \o <<NL, NL, VisualRequirements>>
    IN [shot |-> shot.id, type |-> type, kfId |-> kfId, prompt |-> prompt,
        batch |-> FALSE]

\* lines 372-385: the catch block marks the keyframe that is there
legacyKeyframeFailed(p, c) ==
    LET transformed == [s \in ShotsOf(p) |->
            [s EXCEPT !.keyframes = [k \in DOMAIN s.keyframes |->
                IF s.keyframes[k].type = c.type
                   /\ \A j \in 1..(k - 1) : s.keyframes[j].type # c.type
                THEN [s.keyframes[k] EXCEPT !.status = "failed"]
                ELSE s.keyframes[k]]]]
    IN MapShot(p, c.shot, transformed)

legacyGenerateKeyframe(s, type) ==
    /\ UserCanAct
    /\ \E now \in Times :
         LET c == legacyKeyframeCall(Shown(s), type, now)
         IN /\ project' = WriteKeyframe(project, c, NoUrl, "generating")
            /\ imgCalls' = imgCalls (+) SetToBag({c})
    /\ activeShotId' = s
    /\ ops' = ops + 1
    /\ event' = Event("legacyGenerateKeyframe", s, type, "generating", NoAlert)
    /\ UNCHANGED <<calc, editModal, batchProgress, batch, vidCalls, uploads>>

\* lines 340-392
legacyImageResolved(c, o) ==
    /\ BagIn(c, imgCalls)
    /\ ~c.batch
    /\ project' = IF o.ok THEN WriteKeyframe(project, c, o.url, "completed")
                  ELSE legacyKeyframeFailed(project, c)
    /\ imgCalls' = imgCalls (-) SetToBag({c})
    /\ event' = Event("legacyImageResolved", c.shot, c.type, SettleResult(o), SettleAlert(o))
    /\ UNCHANGED <<calc, activeShotId, editModal, batchProgress, batch, vidCalls, uploads, ops>>

\* lines 423-463: the prompt is written out in the handler
legacyVideoPrompt(shot, projectLanguage) ==
    LET selectedModel == IF shot.videoModel # NoUrl THEN shot.videoModel ELSE "sora-2"
    IN IF selectedModel = "sora-2"
       THEN IF projectLanguage = LangZh
            THEN <<"sora2.chinese/intro+action label">> \o shot.actionSummary
                 \o <<"sora2.chinese/requirements">> \o shot.cameraMovement
                 \o <<"sora2.chinese/motion,style,details,language zh">>
            ELSE <<"sora2.english/intro+action label">> \o shot.actionSummary
                 \o <<"sora2.english/requirements">> \o shot.cameraMovement
                 \o <<"sora2.english/motion,style,details,Language: Use ",
                      projectLanguage, " for voiceover and subtitles">>
       ELSE IF projectLanguage = LangZh
            THEN shot.actionSummary \o <<NL, NL, "veo/camera label zh">>
                 \o shot.cameraMovement \o <<NL, "veo/voice zh">>
            ELSE shot.actionSummary \o <<NL, NL, "Camera Movement: ">>
                 \o shot.cameraMovement
                 \o <<NL, "Voiceover Language: Use ", projectLanguage, " for voiceover">>

\* lines 396-399, 420-465: what the handler computes from the shot it was given
legacyVideoCall(shot, now, stage) ==
    LET sKf == FindKeyframe(shot, "start")
        eKf == FindKeyframe(shot, "end")
    IN [shot |-> shot.id,
        intervalId |-> IF shot.interval # Null THEN shot.interval.id
                       ELSE generateId(IntPrefix(shot.id), now),
        startKeyframeId |-> sKf.id,
        endKeyframeId |-> IF eKf # Null THEN eKf.id ELSE EmptyId,
        videoPrompt |-> legacyVideoPrompt(shot, project.language),
        startImage |-> sKf.imageUrl,
        endImage |-> ImageOf(eKf),
        model |-> IF shot.videoModel # NoUrl THEN shot.videoModel ELSE "sora-2",
        stage |-> stage]

\* lines 401-414: the interval object a shot without one is given first
legacyPendingInterval(p, c) ==
    LET transformed == [s \in ShotsOf(p) |->
            [s EXCEPT !.interval =
                [id |-> c.intervalId, startKeyframeId |-> c.startKeyframeId,
                 endKeyframeId |-> c.endKeyframeId, duration |-> 10,
                 motionStrength |-> 5, videoPrompt |-> <<>>, videoUrl |-> NoUrl,
                 status |-> "pending"]]]
    IN MapShot(p, c.shot, transformed)

\* lines 395-416, and 465-478 when the shot has its interval already
legacyGenerateVideo(s) ==
    /\ UserCanAct
    /\ activeShotId' = s
    /\ ops' = ops + 1
    /\ IF ~VideoAccepted(Shown(s))
       THEN /\ event' = Event("legacyGenerateVideo", s, "", "rejected",
                              "Please generate the start frame first!")
            /\ UNCHANGED <<project, vidCalls>>
       ELSE IF Shown(s).interval = Null
       THEN /\ \E now \in Times :
                 LET c == legacyVideoCall(Shown(s), now, "wait")
                 IN /\ project' = legacyPendingInterval(project, c)
                    /\ vidCalls' = vidCalls (+) SetToBag({c})
            /\ event' = Event("legacyGenerateVideo", s, "", "pending", NoAlert)
       ELSE /\ \E now \in Times :
                 LET c == legacyVideoCall(Shown(s), now, "call")
                 IN /\ project' = VideoGenerating(project, c)
                    /\ vidCalls' = vidCalls (+) SetToBag({c})
            /\ event' = Event("legacyGenerateVideo", s, "", "generating", NoAlert)
    /\ UNCHANGED <<calc, editModal, batchProgress, batch, imgCalls, uploads>>

\* line 416 resumes after 100 ms: lines 465-478 with the shot of the call
legacyVideoWaited(c) ==
    /\ BagIn(c, vidCalls)
    /\ c.stage = "wait"
    /\ \E now \in Times :
         LET called == [c EXCEPT !.intervalId = generateId(IntPrefix(c.shot), now),
                                 !.stage = "call"]
         IN /\ project' = VideoGenerating(project, called)
            /\ vidCalls' = (vidCalls (-) SetToBag({c})) (+) SetToBag({called})
    /\ event' = Event("legacyVideoWaited", c.shot, "", "generating", NoAlert)
    /\ UNCHANGED <<calc, activeShotId, editModal, batchProgress, batch, imgCalls, uploads, ops>>

\* lines 480-519
legacyVideoResolved(c, o) ==
    /\ BagIn(c, vidCalls)
    /\ c.stage = "call"
    /\ project' = IF o.ok THEN VideoCompleted(project, c, o.url)
                  ELSE VideoFailed(project, c)
    /\ vidCalls' = vidCalls (-) SetToBag({c})
    /\ event' = Event("legacyVideoResolved", c.shot, "",
                      IF o.ok THEN "completed" ELSE IF o.handled THEN "handled" ELSE "failed",
                      IF o.ok \/ o.handled THEN NoAlert
                      ELSE "Video generation failed: e.message")
    /\ UNCHANGED <<calc, activeShotId, editModal, batchProgress, batch, imgCalls, uploads, ops>>

\* lines 596-612: the prompt and the id of the batch call for a shot
legacyBatchCall(shot, now) ==
    LET existingKf == FindKeyframe(shot, "start")
        kfId == IF existingKf # Null THEN existingKf.id
                ELSE generateId(KfPrefix(shot.id, "start"), now)
        prompt == (IF PromptOf(existingKf) # <<>> THEN existingKf.visualPrompt
                   ELSE shot.actionSummary)
                  \o Marker \o <<" ", StylePrompt(project.visualStyle)>>
                  \o <<NL, NL, "Visual Requirements: High definition, cinematic composition, 16:9 widescreen format.">>
    IN [shot |-> shot.id, type |-> "start", kfId |-> kfId, prompt |-> prompt,
        batch |-> TRUE]

\* lines 617-634: the result goes into the local copy
legacyCurrentShots(currentShots, c, url) ==
    [k \in DOMAIN currentShots |->
        IF currentShots[k].id # c.shot THEN currentShots[k]
        ELSE updateKeyframeInShot(currentShots[k], "start",
                createKeyframe(c.kfId, "start", c.prompt, url, "completed"))]

\* line 636: updateProject with the partial project { shots: currentShots }
legacyWriteBack(p, currentShots) == [p EXCEPT !.shots = currentShots]

\* lines 590-615: progress, then the call of generateImage for shot i
legacyBatchIssue(p, calls, b, i, now) ==
    LET c == legacyBatchCall(b.shots[i + 1], now)
    IN Loop(p, calls (+) SetToBag({c}),
            [b EXCEPT !.pc = "await", !.i = i],
            [current |-> i + 1, total |-> Len(b.shots)])

\* lines 585-587, 648: the head of iteration i, up to the next suspension
legacyBatchEnter(p, calls, b, i, progress, now) ==
    IF i >= Len(b.shots)
    THEN Loop(p, calls, IdleBatch, Null)
    ELSE IF i > 0
    THEN Loop(p, calls, [b EXCEPT !.pc = "delay", !.i = i], progress)
    ELSE legacyBatchIssue(p, calls, b, i, now)

\* lines 563-587: the toolbar button; confirmed is the answer to window.confirm
legacyBatchGenerateImages(confirmed) ==
    /\ UserCanAct
    /\ batch.pc = "idle"
    /\ ops' = ops + 1
    /\ LET isRegenerate == allStartFramesGenerated
           shotsToProcess == ShotsToProcess(project, isRegenerate)
           b == [pc |-> "start", shots |-> shotsToProcess, i |-> 0,
                 isRegenerate |-> isRegenerate, currentShots |-> project.shots]
       IN IF (isRegenerate /\ ~confirmed) \/ Len(shotsToProcess) = 0
          THEN /\ ~confirmed
               /\ event' = Event("legacyBatchStart", 0, "start", "declined", NoAlert)
               /\ UNCHANGED <<project, imgCalls, batch, batchProgress>>
          ELSE /\ confirmed
               /\ \E now \in Times :
                    BatchTakes(legacyBatchEnter(project, imgCalls, b, 0,
                        [current |-> 0, total |-> Len(shotsToProcess)], now))
               /\ event' = Event("legacyBatchStart", 0, "start",
                                 IF isRegenerate THEN "regenerateAll" ELSE "fillMissing",
                                 NoAlert)
    /\ UNCHANGED <<calc, activeShotId, editModal, vidCalls, uploads>>

\* line 587 resumes: the 3 s timer fires
legacyBatchDelayElapsed ==
    /\ batch.pc = "delay"
    /\ \E now \in Times :
         BatchTakes(legacyBatchIssue(project, imgCalls, batch, batch.i, now))
    /\ event' = Event("legacyBatchDelayElapsed", batch.shots[batch.i + 1].id, "start",
                      "called", NoAlert)
    /\ UNCHANGED <<calc, activeShotId, editModal, vidCalls, uploads, ops>>

\* line 615 resumes: lines 617-636 on success, lines 638-645 on failure,
\* then the rest of the loop up to its next suspension
legacyBatchImageResolved(c, o) ==
    /\ BagIn(c, imgCalls)
    /\ c.batch
    /\ batch.pc = "await"
    /\ LET calls == imgCalls (-) SetToBag({c})
           currentShots == legacyCurrentShots(batch.currentShots, c, o.url)
       IN IF o.ok
          THEN \E now \in Times :
                 BatchTakes(legacyBatchEnter(legacyWriteBack(project, currentShots), calls,
                                [batch EXCEPT !.currentShots = currentShots],
                                batch.i + 1, batchProgress, now))
          ELSE IF o.handled
          THEN BatchTakes(Loop(project, calls, IdleBatch, Null))
          ELSE \E now \in Times :
                 BatchTakes(legacyBatchEnter(project, calls, batch, batch.i + 1,
                                             batchProgress, now))
    /\ event' = Event("legacyBatchImageResolved", c.shot, "start", SettleResult(o), NoAlert)
    /\ UNCHANGED <<calc, activeShotId, editModal, vidCalls, uploads, ops>>

NextLegacy ==
    \/ \E s \in ShotIds, type \in FrameTypes : legacyGenerateKeyframe(s, type)
    \/ \E c \in BagToSet(imgCalls), o \in ImageOutcomes : legacyImageResolved(c, o)
    \/ \E s \in ShotIds : legacyGenerateVideo(s)
    \/ \E c \in BagToSet(vidCalls) : legacyVideoWaited(c)
    \/ \E c \in BagToSet(vidCalls), o \in VideoOutcomes : legacyVideoResolved(c, o)
    \/ \E confirmed \in BOOLEAN : legacyBatchGenerateImages(confirmed)
    \/ legacyBatchDelayElapsed
    \/ \E c \in BagToSet(imgCalls), o \in ImageOutcomes : legacyBatchImageResolved(c, o)

SpecLegacy == Init /\ [][NextLegacy]_vars

\* the data of shot s that is complete in project p: its keyframes with
\* status 'completed' and its interval when that is 'completed'
CompletedData(p, s) ==
    [keyframes |-> {kf \in {KeyframeAt(p, s, type) : type \in FrameTypes} \ {Null} :
                        kf.status = "completed"},
     interval |-> IF IntervalAt(p, s) # Null /\ IntervalAt(p, s).status = "completed"
                  THEN IntervalAt(p, s) ELSE Null]

\* C10: no step of the batch loop of the single-file StageDirector loses a
\* result: when a call of the loop settles, whether the loop then writes,
\* goes on, ends or aborts, every keyframe that was completed before the
\* step, other than the start keyframe the call was made for, and every
\* completed interval, is there with the same data after the step.
C10_LegacyBatchLosesNothing ==
    [][\A c \in BagToSet(imgCalls), o \in ImageOutcomes :
          legacyBatchImageResolved(c, o)
          => \A s \in ShotIds :
                /\ \A kf \in CompletedData(project, s).keyframes :
                      (s = c.shot /\ kf.type = "start")
                      \/ kf \in CompletedData(project', s).keyframes
                /\ CompletedData(project, s).interval # Null
                      => CompletedData(project', s).interval
                            = CompletedData(project, s).interval]_vars

----------------------------------------------------------------------------
(* Frame conditions and single operations of the refactored StageDirector *)

\* every shot of the project other than shot s is the same before and after
OtherShotsSame(s) ==
    /\ Len(project'.shots) = Len(project.shots)
    /\ \A i \in DOMAIN project.shots :
          project.shots[i].id # s => project'.shots[i] = project.shots[i]

\* C11: every write of generate, upload, generateVideo, copyPreviousEndFrame
\* and of a saved edit for shot X, the one that starts the operation and
\* the one made when its call or file read settles, leaves every other
\* shot of the project as it is at that moment.
C11_WritesTouchOneShot ==
    [][/\ \A s \in ShotIds :
            ( \/ \E type \in FrameTypes : handleGenerateKeyframe(s, type)
              \/ handleGenerateVideo(s)
              \/ handleCopyPreviousEndFrame(s) )
            => OtherShotsSame(s)
       /\ \A c \in BagToSet(imgCalls), o \in ImageOutcomes :
            imageResolved(c, o) => OtherShotsSame(c.shot)
       /\ \A c \in BagToSet(vidCalls), o \in VideoOutcomes :
            videoResolved(c, o) => OtherShotsSame(c.shot)
       /\ \A u \in BagToSet(uploads), file \in Files :
            uploadOnChange(u, file) => OtherShotsSame(u.shot)
       /\ handleSaveEdit => OtherShotsSame(activeShotId)
      ]_vars

\* the call of shot X has settled while the call of another shot, started
\* in the meantime or before, is in flight with its 'generating' keyframe
C11_Witness ==
    /\ event.op = "imageResolved"
    /\ event.result = "completed"
    /\ \E c \in BagToSet(imgCalls) :
          /\ c.shot # event.shot
          /\ KeyframeAt(project, c.shot, c.type) # Null
          /\ KeyframeAt(project, c.shot, c.type).status = "generating"
          /\ KeyframeAt(project, c.shot, c.type).visualPrompt = c.prompt

\* the end keyframe of the shot before shot s (Null for the first shot)
PreviousEndKf(p, s) ==
    LET i == CHOOSE k \in DOMAIN p.shots : p.shots[k].id = s
    IN IF i = 1 THEN Null ELSE FindKeyframe(p.shots[i - 1], "end")

IsFirstShot(p, s) == p.shots[1].id = s

\* shot s is the same before and after but for its keyframe of the type
ShotSameButKeyframe(s, type) ==
    LET before == ShotById(project, s)
        after == ShotById(project', s)
        other == IF type = "start" THEN "end" ELSE "start"
    IN /\ [after EXCEPT !.keyframes = before.keyframes] = before
       /\ FindKeyframe(after, other) = FindKeyframe(before, other)
       /\ Len(after.keyframes) =
             Len(before.keyframes) + (IF FindKeyframe(before, type) = Null THEN 1 ELSE 0)

\* C12: copyPreviousEndFrame on a shot that is not the first, when the end
\* keyframe of the shot before has an image, leaves the start keyframe of
\* the shot 'completed' with the image and the prompt of that end
\* keyframe, starts no call, and changes nothing else in the shot or in
\* any other shot.
C12_CopyTakesPreviousEndFrame ==
    [][\A s \in ShotIds :
          ( /\ handleCopyPreviousEndFrame(s)
            /\ ~IsFirstShot(project, s)
            /\ Truthy(ImageOf(PreviousEndKf(project, s))) )
          => LET kf == KeyframeAt(project', s, "start")
                 previousEndKf == PreviousEndKf(project, s)
             IN /\ kf # Null
                /\ kf.status = "completed"
                /\ kf.imageUrl = previousEndKf.imageUrl
                /\ kf.visualPrompt = previousEndKf.visualPrompt
                /\ imgCalls' = imgCalls
                /\ vidCalls' = vidCalls
                /\ uploads' = uploads
                /\ ShotSameButKeyframe(s, "start")
                /\ OtherShotsSame(s)]_vars

\* a shot that had no start keyframe has been given the end frame of the
\* shot before it
C12_Witness ==
    /\ event.op = "copyPreviousEndFrame"
    /\ event.result = "completed"
    /\ Len(ShotById(project, event.shot).keyframes) = 1
    /\ KeyframeAt(project, event.shot, "start").imageUrl
          = PreviousEndKf(project, event.shot).imageUrl
    /\ KeyframeAt(project, event.shot, "start").visualPrompt
          = PreviousEndKf(project, event.shot).visualPrompt

\* C13: copyPreviousEndFrame changes nothing in the project and starts no
\* call when the shot is the first one, or when the end keyframe of the
\* shot before is absent, is not 'completed' or has no image; in the
\* latter cases the user is shown the message.
C13_CopyRejected ==
    [][\A s \in ShotIds :
          handleCopyPreviousEndFrame(s)
          => LET previousEndKf == PreviousEndKf(project, s)
             IN /\ IsFirstShot(project, s)
                   => /\ project' = project
                      /\ imgCalls' = imgCalls /\ vidCalls' = vidCalls
                /\ ( /\ ~IsFirstShot(project, s)
                     /\ \/ previousEndKf = Null
                        \/ previousEndKf.status # "completed"
                        \/ ~Truthy(previousEndKf.imageUrl) )
                   => /\ project' = project
                      /\ imgCalls' = imgCalls /\ vidCalls' = vidCalls
                      /\ event'.alert = "The previous shot has no end frame yet"
      ]_vars

\* the copy was asked for while the end frame of the shot before was
\* being generated
C13_Witness ==
    /\ event.op = "copyPreviousEndFrame"
    /\ event.result = "rejected"
    /\ PreviousEndKf(project, event.shot) # Null
    /\ PreviousEndKf(project, event.shot).status = "generating"

\* the calls that are in the bag after the step and were not before
NewCalls(before, after) ==
    {c \in BagToSet(after) : CopiesIn(c, after) > CopiesIn(c, before)}

\* C14: the images an accepted video request hands to the video service
\* are those of the shot's own keyframes: the start image, and as end
\* image the image of the shot's end keyframe when it has one (two-image
\* mode), none otherwise (one-image mode), whatever the other shots hold.
C14_VideoModeFromOwnKeyframes ==
    [][\A s \in ShotIds :
          ( /\ handleGenerateVideo(s)
            /\ Truthy(ImageOf(KeyframeAt(project, s, "start"))) )
          => /\ NewCalls(vidCalls, vidCalls') # {}
             /\ \A c \in NewCalls(vidCalls, vidCalls') :
                   /\ c.shot = s
                   /\ c.startImage = KeyframeAt(project, s, "start").imageUrl
                   /\ c.endImage =
                        (IF Truthy(ImageOf(KeyframeAt(project, s, "end")))
                         THEN KeyframeAt(project, s, "end").imageUrl
                         ELSE NoUrl)]_vars

\* a request in one-image mode for a shot without end keyframe, while the
\* shot before it has an end image
C14_Witness ==
    /\ event.op = "generateVideo"
    /\ event.result = "generating"
    /\ KeyframeAt(project, event.shot, "end") = Null
    /\ Truthy(ImageOf(PreviousEndKf(project, event.shot)))
    /\ \E c \in BagToSet(vidCalls) : c.shot = event.shot /\ c.endImage = NoUrl

\* no file, a file whose type is not an image type, a file that cannot be read
UploadFails(file) ==
    file.kind = "none" \/ file.kind = "text/plain" \/ file.url = NoUrl

\* C15: an upload whose file is missing, is not an image, or cannot be read
\* leaves the project as it was (the targeted keyframe keeps its status,
\* image, prompt and id, or stays absent) and issues no call; the non-image
\* and the read-failure cases show an alert.
C15_FailedUploadChangesNothing ==
    [][\A u \in BagToSet(uploads), file \in Files :
          uploadOnChange(u, file) /\ UploadFails(file) =>
              /\ project' = project
              /\ KeyframeAt(project', u.shot, u.type) = KeyframeAt(project, u.shot, u.type)
              /\ imgCalls' = imgCalls /\ vidCalls' = vidCalls
              /\ (file.kind # "none" => event'.alert # NoAlert)]_vars

\* a text file was turned away while the targeted keyframe had an image
C15_Witness ==
    /\ event.op = "uploadChange" /\ event.result = "rejected"
    /\ event.alert = "Please choose an image file!"
    /\ KeyframeAt(project, event.shot, event.type) # Null
    /\ KeyframeAt(project, event.shot, event.type).status = "completed"

\* the prompt an upload is to keep: that of the keyframe in project p, or the
\* action summary of the shot when p has no keyframe of that type
PromptBeforeUpload(p, s, type) ==
    IF KeyframeAt(p, s, type) # Null
    THEN KeyframeAt(p, s, type).visualPrompt
    ELSE ShotById(p, s).actionSummary

\* C16: a successful upload for (shot, role) leaves that keyframe 'completed'
\* with the uploaded image, whatever its previous state; its visualPrompt is
\* the prompt the keyframe had in the project state immediately before the
\* upload was applied, or the action summary of the shot if there was none.
C16_UploadKeepsCurrentPrompt ==
    [][\A u \in BagToSet(uploads), file \in Files :
          uploadOnChange(u, file) /\ ~UploadFails(file) =>
              LET kf == KeyframeAt(project', u.shot, u.type)
              IN /\ kf # Null
                 /\ kf.status = "completed"
                 /\ kf.imageUrl = file.url
                 /\ kf.visualPrompt = PromptBeforeUpload(project, u.shot, u.type)]_vars

\* the part of C16 about status and image alone
C16_UploadCompletes ==
    [][\A u \in BagToSet(uploads), file \in Files :
          uploadOnChange(u, file) /\ ~UploadFails(file) =>
              LET kf == KeyframeAt(project', u.shot, u.type)
              IN kf # Null /\ kf.status = "completed" /\ kf.imageUrl = file.url]_vars

\* C17: saving a keyframe prompt edit changes only the visualPrompt of the
\* keyframe of the active shot whose prompt was opened: its status, imageUrl
\* and id, every other keyframe, the interval and every other shot stay as
\* they were, no keyframe is created, and no generation call is issued.
C17_PromptEditTouchesOnePrompt ==
    [][handleSaveEdit /\ editModal.type = "keyframe" =>
          LET before == ShotById(project, activeShotId)
              after == ShotById(project', activeShotId)
          IN /\ OtherShotsSame(activeShotId)
             /\ [after EXCEPT !.keyframes = before.keyframes] = before
             /\ Len(after.keyframes) = Len(before.keyframes)
             /\ \A i \in DOMAIN before.keyframes :
                   IF before.keyframes[i].type = editModal.frameType
                   THEN after.keyframes[i] =
                          [before.keyframes[i] EXCEPT !.visualPrompt = editModal.value]
                   ELSE after.keyframes[i] = before.keyframes[i]
             /\ imgCalls' = imgCalls /\ vidCalls' = vidCalls]_vars

\* an edited prompt was saved into a start keyframe that has its image,
\* next to an end keyframe that keeps another prompt
C17_Witness ==
    /\ event.op = "saveEdit" /\ event.result = "keyframe" /\ event.type = "start"
    /\ KeyframeAt(project, event.shot, "start") # Null
    /\ KeyframeAt(project, event.shot, "start").visualPrompt = <<"e">>
    /\ KeyframeAt(project, event.shot, "start").status = "completed"
    /\ KeyframeAt(project, event.shot, "end") # Null
    /\ KeyframeAt(project, event.shot, "end").visualPrompt # <<"e">>

KeyframesOfType(shot, type) ==
    {i \in DOMAIN shot.keyframes : shot.keyframes[i].type = type}

ImageCallsFor(s, type) ==
    LET mine == {c \in BagToSet(imgCalls) : c.shot = s /\ c.type = type}
    IN BagCardinality([c \in mine |-> imgCalls[c]])

\* C18: from a project in which every shot has at most one 'start' and at
\* most one 'end' keyframe, every reachable state keeps that bound for
\* every shot: generate, regenerate, retry, upload, copy and batch replace
\* the keyframe of the type in place, under any interleaving.
C18_OneKeyframePerType ==
    \A i \in DOMAIN project.shots : \A type \in FrameTypes :
        Cardinality(KeyframesOfType(project.shots[i], type)) <= 1

\* two generations of the same keyframe are in flight, or an upload has
\* landed on a keyframe whose generation is still in flight, and the shot
\* has one keyframe of that type
C18_Witness ==
    \E s \in ShotIds : \E type \in FrameTypes :
        /\ Cardinality(KeyframesOfType(Shown(s), type)) = 1
        /\ \/ ImageCallsFor(s, type) = 2
           \/ /\ ImageCallsFor(s, type) = 1
              /\ event = Event("uploadChange", s, type, "completed", NoAlert)

\* C19: once a keyframe exists for (shot, role) its id never changes: every
\* later regenerate, retry, upload, copy or batch generation on that (shot,
\* role) writes a keyframe with the same id, under any interleaving.
C19_KeyframeIdStable ==
    [][\A s \in ShotIds : \A type \in FrameTypes :
          KeyframeAt(project, s, type) # Null =>
              /\ KeyframeAt(project', s, type) # Null
              /\ KeyframeAt(project', s, type).id = KeyframeAt(project, s, type).id]_vars

----------------------------------------------------------------------------
(* Reference images of a shot.  getRefImagesForShot on its own: a script   *)
(* with one scene and two characters, and a shot whose character list and  *)
(* variation choices the user edits in the workbench (index.tsx 403-413).  *)
(* Ids come from the script analysis as numbers or as strings, which is    *)
(* why the lookups compare String(id).                                     *)

MaxShotChars == 2

RefCharIds == {1, 2}
UnknownCharId == 9
DigitOf == [n \in 0..9 |-> CASE n = 0 -> "0" [] n = 1 -> "1" [] n = 2 -> "2"
                             [] n = 3 -> "3" [] n = 4 -> "4" [] n = 5 -> "5"
                             [] n = 6 -> "6" [] n = 7 -> "7" [] n = 8 -> "8"
                             [] n = 9 -> "9"]

\* a JS id: a number or a string, with its decimal text
JsId(t, n) == [t |-> t, v |-> DigitOf[n]]
\* String(id)
String(id) == id.v

SceneImage == "scene.png"
BaseImage(n) == "base-" \o DigitOf[n] \o ".png"
VariationImage(n) == "variation-" \o DigitOf[n] \o ".png"
VarIds == {"v", ""}

\* the scenes a script can have for the shot: none, one without a reference
\* image, one with it
RefScenes ==
    {<<>>} \cup {<<[id |-> JsId("string", 1), referenceImage |-> img]>> :
                    img \in {NoUrl, SceneImage}}

\* a character with or without a base image, with no variation or with the
\* variation "v", which has an image or not
RefCharacter(n, hasBase, variation) ==
    [id |-> JsId("string", n),
     referenceImage |-> IF hasBase THEN BaseImage(n) ELSE NoUrl,
     variations |-> CASE variation = "none" -> <<>>
                      [] variation = "plain" -> <<[id |-> "v", referenceImage |-> NoUrl]>>
                      [] variation = "image" ->
                           <<[id |-> "v", referenceImage |-> VariationImage(n)]>>]

RefCharacterLists ==
    {[n \in RefCharIds |-> RefCharacter(n, hasBase[n], variation[n])] :
        hasBase \in [RefCharIds -> BOOLEAN],
        variation \in [RefCharIds -> {"none", "plain", "image"}]}

RefScriptData ==
    {Null} \cup [scenes : RefScenes, characters : RefCharacterLists]

FindScene(scriptData, sceneId) ==
    LET idxs == {i \in DOMAIN scriptData.scenes :
                    String(scriptData.scenes[i].id) = String(sceneId)}
    IN IF idxs = {} THEN Null
       ELSE scriptData.scenes[CHOOSE i \in idxs : \A j \in idxs : i <= j]

FindCharacter(scriptData, charId) ==
    LET idxs == {i \in DOMAIN scriptData.characters :
                    String(scriptData.characters[i].id) = String(charId)}
    IN IF idxs = {} THEN Null
       ELSE scriptData.characters[CHOOSE i \in idxs : \A j \in idxs : i <= j]

FindVariation(char, varId) ==
    LET idxs == {i \in DOMAIN char.variations : char.variations[i].id = varId}
    IN IF idxs = {} THEN Null
       ELSE char.variations[CHOOSE i \in idxs : \A j \in idxs : i <= j]

\* shot.characterVariations?.[charId]: the property key is the id as a string
SelectedVariation(shot, charId) ==
    IF String(charId) \in DOMAIN shot.characterVariations
    THEN shot.characterVariations[String(charId)] ELSE NoUrl

\* a loop body that takes the base image before it looks at the variation
PushedForCharacterBaseFirst(shot, scriptData, charId) ==
    LET char == FindCharacter(scriptData, charId)
        varId == SelectedVariation(shot, charId)
        variation == IF char # Null /\ Truthy(varId)
                     THEN FindVariation(char, varId) ELSE Null
    IN IF char = Null THEN <<>>
       ELSE IF Truthy(char.referenceImage) THEN <<char.referenceImage>>
       ELSE IF variation # Null /\ Truthy(variation.referenceImage)
       THEN <<variation.referenceImage>>
       ELSE <<>>

\* lines 22-38: what one character id pushes
PushedForCharacter(shot, scriptData, charId) ==
    LET char == FindCharacter(scriptData, charId)
        varId == SelectedVariation(shot, charId)
        variation == IF char # Null /\ Truthy(varId)
                     THEN FindVariation(char, varId) ELSE Null
    IN IF char = Null THEN <<>>
       ELSE IF variation # Null /\ Truthy(variation.referenceImage)
       THEN <<variation.referenceImage>>
       ELSE IF Truthy(char.referenceImage) THEN <<char.referenceImage>>
       ELSE <<>>

RECURSIVE PushedForCharacters(_, _, _)
PushedForCharacters(shot, scriptData, i) ==
    IF i > Len(shot.characters) THEN <<>>
    ELSE PushedForCharacter(shot, scriptData, shot.characters[i])
         \o PushedForCharacters(shot, scriptData, i + 1)

\* lines 14-17
PushedForScene(shot, scriptData) ==
    LET scene == FindScene(scriptData, shot.sceneId)
    IN IF scene # Null /\ Truthy(scene.referenceImage)
       THEN <<scene.referenceImage>> ELSE <<>>

\* a collection that puts the scene image after the character images
getRefImagesForShotSceneLast(shot, scriptData) ==
    IF scriptData = Null THEN <<>>
    ELSE PushedForCharacters(shot, scriptData, 1) \o PushedForScene(shot, scriptData)

getRefImagesForShot(shot, scriptData) ==
    IF scriptData = Null THEN <<>>
    ELSE PushedForScene(shot, scriptData) \o PushedForCharacters(shot, scriptData, 1)

\* the ids a shot can name: those of the script, as numbers or strings, and
\* one the script does not have
RefShotCharIds ==
    {JsId(t, n) : t \in {"number", "string"}, n \in RefCharIds}
    \cup {JsId("string", UnknownCharId)}

InitRefs ==
    /\ \E scriptData \in RefScriptData, t \in {"number", "string"} :
         calc = [fn |-> "refs", scriptData |-> scriptData,
                 shot |-> [sceneId |-> JsId(t, 1), characters |-> <<>>,
                           characterVariations |-> <<>>],
                 returned |-> FALSE, images |-> <<>>]
    /\ project = [shots |-> <<>>, visualStyle |-> "live-action", language |-> LangZh]
    /\ activeShotId = 0
    /\ editModal = Null
    /\ batchProgress = Null
    /\ batch = IdleBatch
    /\ imgCalls = EmptyBag
    /\ vidCalls = EmptyBag
    /\ uploads = EmptyBag
    /\ ops = 0
    /\ event = Event("init", 0, "", "", NoAlert)

RefsEdited(shot, op) ==
    /\ calc' = [calc EXCEPT !.shot = shot, !.returned = FALSE, !.images = <<>>]
    /\ event' = Event(op, 1, "", "", NoAlert)
    /\ UNCHANGED <<project, activeShotId, editModal, batchProgress, batch,
                   imgCalls, vidCalls, uploads, ops>>

\* index.tsx 403
onAddCharacter(charId) ==
    /\ calc.fn = "refs"
    /\ Len(calc.shot.characters) < MaxShotChars
    /\ RefsEdited([calc.shot EXCEPT !.characters = Append(@, charId)], "onAddCharacter")

\* index.tsx 404-410: both filters compare with !==, the keys of
\* characterVariations being strings
onRemoveCharacter(charId) ==
    /\ calc.fn = "refs"
    /\ \E i \in DOMAIN calc.shot.characters : calc.shot.characters[i] = charId
    /\ LET keep == {k \in DOMAIN calc.shot.characterVariations :
                       ~(charId.t = "string" /\ charId.v = k)}
       IN RefsEdited([calc.shot EXCEPT
              !.characters = SelectSeq(@, LAMBDA id : id # charId),
              !.characterVariations = [k \in keep |-> calc.shot.characterVariations[k]]],
            "onRemoveCharacter")

\* index.tsx 411-414
onVariationChange(charId, varId) ==
    /\ calc.fn = "refs"
    /\ \E i \in DOMAIN calc.shot.characters : calc.shot.characters[i] = charId
    /\ SelectedVariation(calc.shot, charId) # varId
    /\ LET cv == calc.shot.characterVariations
       IN RefsEdited([calc.shot EXCEPT !.characterVariations =
              [k \in DOMAIN cv \cup {String(charId)} |->
                  IF k = String(charId) THEN varId ELSE cv[k]]],
            "onVariationChange")

\* index.tsx 81
collectReferenceImages ==
    /\ calc.fn = "refs"
    /\ ~calc.returned
    /\ calc' = [calc EXCEPT !.returned = TRUE,
                            !.images = getRefImagesForShot(calc.shot, calc.scriptData)]
    /\ event' = Event("getRefImagesForShot", 1, "", "", NoAlert)
    /\ UNCHANGED <<project, activeShotId, editModal, batchProgress, batch,
                   imgCalls, vidCalls, uploads, ops>>

NextRefs ==
    \/ \E charId \in RefShotCharIds : onAddCharacter(charId)
    \/ \E charId \in RefShotCharIds : onRemoveCharacter(charId)
    \/ \E charId \in RefShotCharIds, varId \in VarIds : onVariationChange(charId, varId)
    \/ collectReferenceImages

SpecRefs == InitRefs /\ [][NextRefs]_vars

\* the images the script holds for the character a shot names by charId
ImagesOfCharacter(scriptData, charId) ==
    LET char == FindCharacter(scriptData, charId)
    IN IF char = Null THEN {}
       ELSE ({char.referenceImage}
             \cup {char.variations[i].referenceImage : i \in DOMAIN char.variations})
            \ {NoUrl}

\* images is a list of character images taken in the order of characters:
\* each image belongs to a character of the list, later images to later
\* positions of the list
InCharacterOrder(images, characters, scriptData) ==
    \E at \in [DOMAIN images -> DOMAIN characters] :
        /\ \A k \in DOMAIN images :
              images[k] \in ImagesOfCharacter(scriptData, characters[at[k]])
        /\ \A k, l \in DOMAIN images : k < l => at[k] < at[l]

\* C20: for a shot whose scene has a reference image, the list returned by
\* getRefImagesForShot has the scene image as its first element, followed
\* by character images in the order of the character ids of the shot.
C20_SceneImageFirst ==
    (/\ calc.fn = "refs" /\ calc.returned /\ calc.scriptData # Null
     /\ PushedForScene(calc.shot, calc.scriptData) # <<>>)
    => /\ Len(calc.images) >= 1
       /\ calc.images[1] = FindScene(calc.scriptData, calc.shot.sceneId).referenceImage
       /\ InCharacterOrder(Tail(calc.images), calc.shot.characters, calc.scriptData)

\* the list returned for a shot with a scene image and two characters, the
\* second before the first, one of them shown by its variation
C20_Witness ==
    /\ calc.fn = "refs" /\ calc.returned
    /\ calc.images \in {<<SceneImage, VariationImage(2), BaseImage(1)>>,
                        <<SceneImage, BaseImage(2), VariationImage(1)>>}

\* the image of the variation the shot selects for charId, NoUrl when the
\* character is unknown, nothing is selected, or the selection has no image
SelectedVariationImage(shot, scriptData, charId) ==
    LET char == FindCharacter(scriptData, charId)
        key == String(charId)
    IN IF char = Null \/ key \notin DOMAIN shot.characterVariations THEN NoUrl
       ELSE LET chosen == {i \in DOMAIN char.variations :
                              /\ shot.characterVariations[key] # ""
                              /\ char.variations[i].id = shot.characterVariations[key]}
            IN IF chosen = {} THEN NoUrl
               ELSE char.variations[CHOOSE i \in chosen : TRUE].referenceImage

\* the image available for charId: the selected variation's, otherwise the
\* base image of the character, NoUrl when there is neither
AvailableImage(shot, scriptData, charId) ==
    IF SelectedVariationImage(shot, scriptData, charId) # NoUrl
    THEN SelectedVariationImage(shot, scriptData, charId)
    ELSE IF FindCharacter(scriptData, charId) = Null THEN NoUrl
    ELSE FindCharacter(scriptData, charId).referenceImage

WithImage(shot, scriptData) ==
    {i \in DOMAIN shot.characters :
        AvailableImage(shot, scriptData, shot.characters[i]) # NoUrl}

\* C21: getRefImagesForShot contributes, for each character id of the shot
\* in order, exactly one image when one is available (the selected
\* variation's image, otherwise the base image) and nothing when there is
\* none or the character is unknown; duplicates are kept, so the length is
\* [scene has image] + the number of shot characters with an image; the
\* result is empty when scriptData is absent.
C21_OneImagePerCharacter ==
    (calc.fn = "refs" /\ calc.returned) =>
        IF calc.scriptData = Null THEN calc.images = <<>>
        ELSE LET shot == calc.shot
                 sd == calc.scriptData
                 scene == Len(PushedForScene(shot, sd))
                 with == WithImage(shot, sd)
             IN /\ Len(calc.images) = scene + Cardinality(with)
                /\ \A i \in with :
                      calc.images[scene + Cardinality({j \in with : j <= i})]
                          = AvailableImage(shot, sd, shot.characters[i])

\* a character with a base image and a selected variation image is named
\* twice: the variation image is returned twice
C21_Witness ==
    /\ calc.fn = "refs" /\ calc.returned /\ calc.scriptData # Null
    /\ calc.images = <<VariationImage(1), VariationImage(1)>>
    /\ FindCharacter(calc.scriptData, JsId("string", 1)).referenceImage = BaseImage(1)

\* the call without scriptData
C21_WitnessNoScript ==
    calc.fn = "refs" /\ calc.returned /\ calc.scriptData = Null
    /\ Len(calc.shot.characters) = MaxShotChars

----------------------------------------------------------------------------
(* The camera-movement guide on its own: getCameraMovementCompositionGuide *)
(* applied to the movement types of its table in several letter cases, to  *)
(* longer labels that contain a movement type, and to short strings.       *)

MaxMoveLen == 2

UpperChar(c) ==
    IF \E u \in UpperCase : LowerChar(u) = c
    THEN CHOOSE u \in UpperCase : LowerChar(u) = c
    ELSE c

toUpperCase(text) == [i \in 1..Len(text) |-> UpperChar(text[i])]

\* every other letter in upper case
toMixedCase(text) ==
    [i \in 1..Len(text) |-> IF i % 2 = 1 THEN UpperChar(text[i]) ELSE text[i]]

GuideKeys == {guides[i].key : i \in 1..Len(guides)}

\* a table key in lower, upper and mixed case
KeySpellings(key) == {key, toUpperCase(key), toMixedCase(key)}

MoveChars == {"s", "x", " "}

RECURSIVE MovesUpTo(_)
MovesUpTo(n) ==
    IF n = 0 THEN {<<>>}
    ELSE LET shorter == MovesUpTo(n - 1)
         IN shorter \cup {Append(t, ch) : t \in shorter, ch \in MoveChars}

\* the movement strings handed to the guide
GuideMovements ==
    UNION {KeySpellings(k) : k \in GuideKeys}
    \cup {k \o <<" ", "x">> : k \in GuideKeys}
    \cup MovesUpTo(MaxMoveLen)
    \cup Movements

InitGuide ==
    /\ \E movement \in GuideMovements, frameType \in FrameTypes :
         calc = [fn |-> "guide", movement |-> movement, frameType |-> frameType,
                 returned |-> FALSE, instruction |-> ""]
    /\ project = [shots |-> <<>>, visualStyle |-> "live-action", language |-> LangZh]
    /\ activeShotId = 0
    /\ editModal = Null
    /\ batchProgress = Null
    /\ batch = IdleBatch
    /\ imgCalls = EmptyBag
    /\ vidCalls = EmptyBag
    /\ uploads = EmptyBag
    /\ ops = 0
    /\ event = Event("init", 0, "", "", NoAlert)

\* utils.ts 55: the guide is asked for the movement of the shot
lookUpGuide ==
    /\ calc.fn = "guide"
    /\ ~calc.returned
    /\ calc' = [calc EXCEPT !.returned = TRUE,
                   !.instruction =
                       getCameraMovementCompositionGuide(calc.movement, calc.frameType)]
    /\ event' = Event("getCameraMovementCompositionGuide", 0, calc.frameType, "", NoAlert)
    /\ UNCHANGED <<project, activeShotId, editModal, batchProgress, batch,
                   imgCalls, vidCalls, uploads, ops>>

NextGuide == lookUpGuide

SpecGuide == InitGuide /\ [][NextGuide]_vars

\* C22: the guide is total: for every movement string, the empty string and
\* strings that match no entry included, and each frame role, it returns a
\* non-empty instruction.
C22_GuideTotal ==
    (calc.fn = "guide" /\ calc.returned) => calc.instruction # ""

\* the guide has answered for a movement that no table entry matches
C22_Witness ==
    /\ calc.fn = "guide" /\ calc.returned
    /\ calc.movement = <<"x">> /\ calc.frameType = "start"
    /\ calc.instruction = GenericStartGuide

\* the table entry stored under a key
EntryOf(key) == guides[CHOOSE i \in 1..Len(guides) : guides[i].key = key]

\* C23: for every movement type that is a key of the guide table, in any
\* letter case, and each frame role, the guide returns exactly the
\* instruction the table stores under that key for that role, and the start
\* and end instructions of the key differ.
C23_KnownMovementGetsOwnGuide ==
    (calc.fn = "guide" /\ calc.returned /\ toLowerCase(calc.movement) \in GuideKeys)
    => LET entry == EntryOf(toLowerCase(calc.movement))
       IN /\ calc.instruction =
                IF calc.frameType = "start" THEN entry.start ELSE entry.end
          /\ entry.start # entry.end

\* C24: for every movement string that is not, case-insensitively, one of
\* the known movement types of the table, the guide returns the generic
\* start instruction for role start and the generic end instruction for
\* role end.
C24_UnknownMovementGetsGeneric ==
    (calc.fn = "guide" /\ calc.returned /\ toLowerCase(calc.movement) \notin GuideKeys)
    => calc.instruction =
          IF calc.frameType = "start" THEN GenericStartGuide ELSE GenericEndGuide

----------------------------------------------------------------------------
(* buildVideoPrompt on its own, for both model families, default and other *)
(* languages, and texts that do or do not contain a placeholder.           *)

VideoModels == {"sora-2", "veo_3_1_i2v_s_fast_fl_landscape"}
Languages == {LangZh, "Chinese", "English", "Japanese"}
ActionTexts == {<<>>, <<"a">>, <<"{cameraMovement}">>, <<"a", "{language}">>}
MovementTexts == Movements \cup {<<"{language}">>}

InitVideoPrompt ==
    /\ \E actionSummary \in ActionTexts, cameraMovement \in MovementTexts,
          videoModel \in VideoModels, language \in Languages :
         calc = [fn |-> "videoPrompt", actionSummary |-> actionSummary,
                 cameraMovement |-> cameraMovement, videoModel |-> videoModel,
                 language |-> language, returned |-> FALSE, prompt |-> <<>>]
    /\ project = [shots |-> <<>>, visualStyle |-> "live-action", language |-> LangZh]
    /\ activeShotId = 0
    /\ editModal = Null
    /\ batchProgress = Null
    /\ batch = IdleBatch
    /\ imgCalls = EmptyBag
    /\ vidCalls = EmptyBag
    /\ uploads = EmptyBag
    /\ ops = 0
    /\ event = Event("init", 0, "", "", NoAlert)

\* index.tsx 156-161
callBuildVideoPrompt ==
    /\ calc.fn = "videoPrompt"
    /\ ~calc.returned
    /\ calc' = [calc EXCEPT !.returned = TRUE,
                   !.prompt = buildVideoPrompt(calc.actionSummary, calc.cameraMovement,
                                               calc.videoModel, calc.language)]
    /\ event' = Event("buildVideoPrompt", 0, "", "", NoAlert)
    /\ UNCHANGED <<project, activeShotId, editModal, batchProgress, batch,
                   imgCalls, vidCalls, uploads, ops>>

NextVideoPrompt == callBuildVideoPrompt

SpecVideoPrompt == InitVideoPrompt /\ [][NextVideoPrompt]_vars

Placeholders == {"{actionSummary}", "{cameraMovement}", "{language}"}
HasPlaceholder(text) == \E i \in DOMAIN text : text[i] \in Placeholders

PlainVideoPrompt(actionSummary, cameraMovement, videoModel, language) ==
    IF videoModel # "sora-2"
    THEN actionSummary \o <<NL, NL, "veo/camera label">> \o cameraMovement
         \o <<NL, "veo/voice label: use ",
              IF language \in {LangZh, "Chinese"} THEN LangZh ELSE language,
              "veo/voice suffix">>
    ELSE IF language \in {LangZh, "Chinese"}
    THEN <<"sora2.chinese/intro+action label">> \o actionSummary
         \o <<"sora2.chinese/requirements">> \o cameraMovement
         \o <<"sora2.chinese/motion,style,details,language zh">>
    ELSE <<"sora2.english/intro+action label">> \o actionSummary
         \o <<"sora2.english/requirements">> \o cameraMovement
         \o <<"sora2.english/motion,style,details,Language: Use ", language,
              " for voiceover and subtitles">>

\* the template and the language name the amended claim gives a call
AmendedTemplate(videoModel, language) ==
    IF videoModel # "sora-2" THEN VIDEO_PROMPT_TEMPLATES.veo.simple
    ELSE IF language \in {LangZh, "Chinese"} THEN VIDEO_PROMPT_TEMPLATES.sora2.chinese
    ELSE VIDEO_PROMPT_TEMPLATES.sora2.english

AmendedLanguage(videoModel, language) ==
    IF videoModel # "sora-2" /\ language \in {LangZh, "Chinese"} THEN LangZh ELSE language

HandledOrShown(o) == o.handled <=> (event'.alert = NoAlert)

\* C26: every failed keyframe or video generation call, started by the user
\* or by the batch loop, ends in exactly one of two outcomes: the credential
\* collaborator reports that it handled the error, or a failure message is
\* shown to the user; no failure ends with neither.
C26_FailureHandledOrShown ==
    [][/\ \A c \in BagToSet(imgCalls), o \in ImageOutcomes :
             (imageResolved(c, o) \/ batchImageResolved(c, o)) /\ ~o.ok
                 => HandledOrShown(o)
       /\ \A c \in BagToSet(vidCalls), o \in VideoOutcomes :
             videoResolved(c, o) /\ ~o.ok => HandledOrShown(o)]_vars

\* a call of the batch loop failed, the collaborator did not take the
\* error, and the message is on screen while the loop goes on
C26_Witness ==
    /\ event.op = "batchImageResolved" /\ event.result = "failed"
    /\ event.alert = "Generation failed: e.message"
    /\ batchProgress # Null

----------------------------------------------------------------------------
(* generateImage and the render log.  A call reads the credentials with    *)
(* checkApiKey (part_000 572), sends the request inside its try block and  *)
(* awaits the response (675-703), then logs and returns or logs and throws *)
(* (705-741).  checkApiKey, retryOperation and addRenderLogWithTokens are  *)
(* imported from files outside this source tree: the credential check      *)
(* raises a credential error when no key is configured, the retried        *)
(* request ends with a response or with its last error, and the log        *)
(* service appends the record it is given.  The field call of a record     *)
(* names the attempt that wrote it.                                        *)

MaxCalls == 3

CallIds == 1..MaxCalls
Credentials == {"configured", "missing"}
Responses == {"image", "no image data", "http 400", "http 500", "http error"}

\* checkApiKey: the key, or a credential error
checkApiKey(credentials) ==
    IF credentials = "configured" THEN [ok |-> TRUE] ELSE [ok |-> FALSE]

\* addRenderLogWithTokens
addRenderLogWithTokens(logs, record) == Append(logs, record)

RenderRecord(call, status) == [type |-> "keyframe", status |-> status, call |-> call]

InitRender ==
    /\ calc = [fn |-> "generateImage", logs |-> <<>>, awaiting |-> {},
               settled |-> [c \in {} |-> ""], calls |-> 0]
    /\ project = [shots |-> <<>>, visualStyle |-> "live-action", language |-> LangZh]
    /\ activeShotId = 0
    /\ editModal = Null
    /\ batchProgress = Null
    /\ batch = IdleBatch
    /\ imgCalls = EmptyBag
    /\ vidCalls = EmptyBag
    /\ uploads = EmptyBag
    /\ ops = 0
    /\ event = Event("init", 0, "", "", NoAlert)

Settled(call, how) ==
    [c \in DOMAIN calc.settled \cup {call} |->
        IF c = call THEN how ELSE calc.settled[c]]

RenderStep(op) ==
    /\ event' = Event(op, 0, "", "", NoAlert)
    /\ UNCHANGED <<project, activeShotId, editModal, batchProgress, batch,
                   imgCalls, vidCalls, uploads, ops>>

\* lines 561-573: the call starts; the credential check is before the try
generateImage(credentials) ==
    /\ calc.fn = "generateImage"
    /\ calc.calls < MaxCalls
    /\ LET call == calc.calls + 1
       IN IF checkApiKey(credentials).ok
          THEN calc' = [calc EXCEPT !.calls = call, !.awaiting = @ \cup {call}]
          ELSE calc' = [calc EXCEPT !.calls = call,
                                    !.settled = Settled(call, "thrown")]
    /\ RenderStep("generateImage")

\* lines 675-741: the awaited request settles
generateImageSettled(call, response) ==
    /\ calc.fn = "generateImage"
    /\ call \in calc.awaiting
    /\ IF response = "image"
       THEN calc' = [calc EXCEPT
                !.awaiting = @ \ {call},
                !.logs = addRenderLogWithTokens(@, RenderRecord(call, "success")),
                !.settled = Settled(call, "returned")]
       ELSE calc' = [calc EXCEPT
                !.awaiting = @ \ {call},
                !.logs = addRenderLogWithTokens(@, RenderRecord(call, "failed")),
                !.settled = Settled(call, "thrown")]
    /\ RenderStep("generateImageSettled")

NextRender ==
    \/ \E credentials \in Credentials : generateImage(credentials)
    \/ \E call \in CallIds, response \in Responses : generateImageSettled(call, response)

SpecRender == InitRender /\ [][NextRender]_vars

RecordsOf(call) == {i \in DOMAIN calc.logs : calc.logs[i].call = call}

\* C27: every call of generateImage appends exactly one render-log record
\* for that attempt: a 'success' record when the call returns an image and
\* a 'failed' record when the call throws, for every cause of failure
\* (missing credentials, HTTP error, response without image data).
C27_OneRecordPerCall ==
    calc.fn = "generateImage" =>
        \A call \in DOMAIN calc.settled :
            /\ Cardinality(RecordsOf(call)) = 1
            /\ \A i \in RecordsOf(call) :
                  calc.logs[i].status =
                      IF calc.settled[call] = "returned" THEN "success" ELSE "failed"

\* the same for the calls that got as far as sending their request
C27_OneRecordPerRequest ==
    calc.fn = "generateImage" =>
        /\ Len(calc.logs) + Cardinality(calc.awaiting)
              <= calc.calls
        /\ \A i \in DOMAIN calc.logs :
              /\ calc.logs[i].call \in DOMAIN calc.settled
              /\ Cardinality(RecordsOf(calc.logs[i].call)) = 1
              /\ calc.logs[i].status =
                    IF calc.settled[calc.logs[i].call] = "returned"
                    THEN "success" ELSE "failed"

----------------------------------------------------------------------------
(* Project storage: saveProjectToDB and loadProjectFromDB over the object  *)
(* store 'projects'.  The store starts with snapshots written by this or   *)
(* by an older version of the program, the latter without a renderLogs     *)
(* field.                                                                  *)

MaxLogLen == 2

ProjectIds == {"p1", "p2", "p3"}
JsUndefined == [undefined |-> TRUE]
JsArray(items) == [items |-> items]

RECURSIVE LogsUpTo(_)
LogsUpTo(n) ==
    IF n = 0 THEN {<<>>}
    ELSE LET shorter == LogsUpTo(n - 1)
         IN shorter \cup {Append(l, [status |-> s]) :
                            l \in shorter, s \in {"success", "failed"}}

\* the renderLogs field of a stored snapshot: missing, or a list
StoredLogs == {JsUndefined} \cup {JsArray(l) : l \in LogsUpTo(MaxLogLen)}

Snapshot(id, renderLogs, lastModified) ==
    [id |-> id, renderLogs |-> renderLogs, lastModified |-> lastModified]

\* object stores with a snapshot for some of the ids
Stores ==
    UNION {[ids -> StoredLogs] : ids \in SUBSET {"p1", "p2"}}

NotLoaded == [state |-> "none"]

InitStorage ==
    /\ \E logsOf \in Stores :
         calc = [fn |-> "storage",
                 db |-> [id \in DOMAIN logsOf |-> Snapshot(id, logsOf[id], 0)],
                 loaded |-> NotLoaded]
    /\ project = [shots |-> <<>>, visualStyle |-> "live-action", language |-> LangZh]
    /\ activeShotId = 0
    /\ editModal = Null
    /\ batchProgress = Null
    /\ batch = IdleBatch
    /\ imgCalls = EmptyBag
    /\ vidCalls = EmptyBag
    /\ uploads = EmptyBag
    /\ ops = 0
    /\ event = Event("init", 0, "", "", NoAlert)

StorageStep(op) ==
    /\ event' = Event(op, 0, "", "", NoAlert)
    /\ UNCHANGED <<project, activeShotId, editModal, batchProgress, batch,
                   imgCalls, vidCalls, uploads, ops>>

\* a load that hands the snapshot over as it was stored
MigratedAsStored(snapshot) == snapshot

\* part_000 106-109: the migration of old projects
Migrated(snapshot) ==
    IF snapshot.renderLogs = JsUndefined
    THEN [snapshot EXCEPT !.renderLogs = JsArray(<<>>)]
    ELSE snapshot

\* part_000 97-116; requestFails is request.onerror
loadProjectFromDB(id, requestFails) ==
    /\ calc.fn = "storage"
    /\ calc' = [calc EXCEPT !.loaded =
          IF requestFails
          THEN [state |-> "rejected", id |-> id, error |-> "request.error"]
          ELSE IF id \in DOMAIN calc.db
          THEN [state |-> "resolved", id |-> id, project |-> Migrated(calc.db[id])]
          ELSE [state |-> "rejected", id |-> id, error |-> "Project not found"]]
    /\ StorageStep("loadProjectFromDB")

\* part_000 85-95, with the project that was loaded
saveProjectToDB(now) ==
    /\ calc.fn = "storage"
    /\ calc.loaded.state = "resolved"
    /\ LET p == [calc.loaded.project EXCEPT !.lastModified = now]
       IN calc' = [calc EXCEPT !.db =
             [id \in DOMAIN calc.db \cup {p.id} |->
                 IF id = p.id THEN p ELSE calc.db[id]]]
    /\ StorageStep("saveProjectToDB")

NextStorage ==
    \/ \E id \in ProjectIds, requestFails \in BOOLEAN : loadProjectFromDB(id, requestFails)
    \/ \E now \in Times : saveProjectToDB(now)

SpecStorage == InitStorage /\ [][NextStorage]_vars

\* C28: loading a stored snapshot that has no render-log field yields a
\* project whose renderLogs is the empty list; a snapshot that has a render
\* log is returned with that log unchanged; loading an id that is not
\* stored fails with 'Project not found' instead of returning a project.
C28_LoadDefaultsRenderLogs ==
    [][\A id \in ProjectIds :
          loadProjectFromDB(id, FALSE) =>
              IF id \in DOMAIN calc.db
              THEN /\ calc'.loaded.state = "resolved"
                   /\ calc'.loaded.project.renderLogs =
                         IF calc.db[id].renderLogs = JsUndefined THEN JsArray(<<>>)
                         ELSE calc.db[id].renderLogs
                   /\ calc'.loaded.project.id = id
              ELSE /\ calc'.loaded.state = "rejected"
                   /\ calc'.loaded.error = "Project not found"]_vars

\* an old snapshot was loaded: the store still has it without the field,
\* the loaded project has the empty list
C28_Witness ==
    /\ calc.fn = "storage" /\ calc.loaded.state = "resolved"
    /\ calc.db[calc.loaded.id].renderLogs = JsUndefined
    /\ calc.loaded.project.renderLogs = JsArray(<<>>)

----------------------------------------------------------------------------
(* The nine-grid storyboard of one shot.  The preview (NineGridPreview.tsx) *)
(* and the constants (NINE_GRID) are in the source tree; the planning and  *)
(* rendering calls and the crop of a panel are in files outside it and     *)
(* follow section 4.8 of the specification: planning must return exactly   *)
(* NINE_GRID.panelCount panels or the grid fails, rendering asks for one   *)
(* composite image, a panel is the cell at row index div 3 and column      *)
(* index mod 3, one third of the image wide and high.  Rectangles are      *)
(* measured in thirds of the image.                                        *)

MaxPanels == 10
MaxGridRuns == 2

\* a grid constant with one panel less
NINE_GRID_OfEight == [panelCount |-> 8]

NINE_GRID == [panelCount |-> 9]

PanelsOf(count) == [i \in 1..count |-> [index |-> i - 1]]

\* what the planning request can end with
PlanResponses ==
    [kind : {"panels"}, count : 0..MaxPanels]
    \cup [kind : {"unparseable", "request failed"}, count : {0}]

GridUrl == "data:grid"
NoSelection == [index |-> -1]

InitNineGrid ==
    /\ calc = [fn |-> "nineGrid", nineGrid |-> Null, isOpen |-> FALSE,
               planning |-> FALSE, rendering |-> FALSE, renderRequests |-> 0,
               planned |-> [kind |-> "none", count |-> 0], runs |-> 0,
               selectedPanel |-> NoSelection, adopted |-> [kind |-> "none"]]
    /\ project = [shots |-> <<>>, visualStyle |-> "live-action", language |-> LangZh]
    /\ activeShotId = 0
    /\ editModal = Null
    /\ batchProgress = Null
    /\ batch = IdleBatch
    /\ imgCalls = EmptyBag
    /\ vidCalls = EmptyBag
    /\ uploads = EmptyBag
    /\ ops = 0
    /\ event = Event("init", 0, "", "", NoAlert)

GridStep(op) ==
    /\ event' = Event(op, 0, "", "", NoAlert)
    /\ UNCHANGED <<project, activeShotId, editModal, batchProgress, batch,
                   imgCalls, vidCalls, uploads, ops>>

\* NineGridPreview.tsx 31-33
isGenerating == calc.nineGrid # Null /\ calc.nineGrid.status = "generating"
hasFailed == calc.nineGrid # Null /\ calc.nineGrid.status = "failed"
isCompleted ==
    calc.nineGrid # Null /\ calc.nineGrid.status = "completed"
        /\ Truthy(calc.nineGrid.imageUrl)

\* the first request for a grid, and onRegenerate (NineGridPreview.tsx 69,
\* 112, 273): the current grid is discarded and planning starts
planPanels ==
    /\ calc.fn = "nineGrid"
    /\ calc.nineGrid = Null \/ hasFailed \/ isCompleted
    /\ calc.runs < MaxGridRuns
    /\ calc' = [calc EXCEPT
          !.nineGrid = [status |-> "generating", panels |-> <<>>, imageUrl |-> NoUrl],
          !.isOpen = TRUE, !.planning = TRUE, !.runs = @ + 1,
          !.selectedPanel = NoSelection]
    /\ GridStep("planPanels")

\* the planning request settles
planSettled(response) ==
    /\ calc.fn = "nineGrid"
    /\ calc.planning
    /\ IF response.kind = "panels" /\ response.count = NINE_GRID.panelCount
       THEN calc' = [calc EXCEPT
               !.planning = FALSE, !.planned = response,
               !.nineGrid.panels = PanelsOf(response.count),
               !.rendering = TRUE, !.renderRequests = @ + 1]
       ELSE calc' = [calc EXCEPT
               !.planning = FALSE, !.planned = response,
               !.nineGrid.status = "failed"]
    /\ GridStep("planSettled")

\* the image request of renderGrid settles
renderSettled(ok) ==
    /\ calc.fn = "nineGrid"
    /\ calc.rendering
    /\ calc' = [calc EXCEPT
          !.rendering = FALSE,
          !.nineGrid.status = IF ok THEN "completed" ELSE "failed",
          !.nineGrid.imageUrl = IF ok THEN GridUrl ELSE NoUrl]
    /\ GridStep("renderSettled")

\* an overlay that fills its cells column by column
OverlayCellByColumn(idx) == [row |-> idx % 3, column |-> idx \div 3]

\* NineGridPreview.tsx 136-137: nine cells placed by a grid of three
\* columns and three rows, in document order
OverlayCell(idx) == [row |-> idx \div 3, column |-> idx % 3]

\* NineGridPreview.tsx 35-37, 149
handlePanelClick(idx) ==
    /\ calc.fn = "nineGrid"
    /\ isCompleted
    /\ calc' = [calc EXCEPT !.selectedPanel =
          IF calc.selectedPanel.index = idx THEN NoSelection
          ELSE [index |-> idx, cell |-> OverlayCell(idx)]]
    /\ GridStep("handlePanelClick")

\* the rectangle of a panel in the composite image
PanelRect(index) ==
    [left |-> index % 3, top |-> index \div 3, width |-> 1, height |-> 1]

\* NineGridPreview.tsx 39-44: the selected panel is handed to onSelectPanel,
\* which crops it
handleConfirmSelect ==
    /\ calc.fn = "nineGrid"
    /\ isCompleted
    /\ calc.selectedPanel # NoSelection
    /\ calc.selectedPanel.index + 1 \in DOMAIN calc.nineGrid.panels
    /\ LET panel == calc.nineGrid.panels[calc.selectedPanel.index + 1]
       IN calc' = [calc EXCEPT
             !.adopted = [kind |-> "panel", index |-> panel.index,
                          cell |-> calc.selectedPanel.cell,
                          rect |-> PanelRect(panel.index)],
             !.selectedPanel = NoSelection]
    /\ GridStep("handleConfirmSelect")

\* NineGridPreview.tsx 241-246: onUseWholeImage
useWholeImage ==
    /\ calc.fn = "nineGrid"
    /\ isCompleted
    /\ calc' = [calc EXCEPT !.adopted = [kind |-> "whole"]]
    /\ GridStep("useWholeImage")

NextNineGrid ==
    \/ planPanels
    \/ \E response \in PlanResponses : planSettled(response)
    \/ \E ok \in BOOLEAN : renderSettled(ok)
    \/ \E idx \in 0..8 : handlePanelClick(idx)
    \/ handleConfirmSelect
    \/ useWholeImage

SpecNineGrid == InitNineGrid /\ [][NextNineGrid]_vars

CellsOf(rect) ==
    {<<row, column>> \in (0..2) \X (0..2) :
        /\ rect.top <= row /\ row < rect.top + rect.height
        /\ rect.left <= column /\ column < rect.left + rect.width}

C30_WitnessOffDiagonal ==
    /\ calc.fn = "nineGrid" /\ calc.adopted.kind = "panel"
    /\ calc.adopted.index = 5
    /\ calc.adopted.rect = [left |-> 2, top |-> 1, width |-> 1, height |-> 1]

----------------------------------------------------------------------------
(* Keyframe status under interleaved calls *)

StatusAt(p, s, type) ==
    IF KeyframeAt(p, s, type) = Null THEN "absent"
    ELSE KeyframeAt(p, s, type).status

\* C31: a keyframe's status only moves along the documented edges: any
\* status -> generating when a generation starts, generating -> completed
\* or failed when a generation call settles, and any status -> completed by
\* upload or copy; in particular the outcome of a generation call never
\* takes a keyframe from completed to failed or from failed to completed
\* without 'generating' in between, under any interleaving of calls on the
\* same keyframe.
C31_StatusFollowsEdges ==
    [][\A s \in ShotIds, type \in FrameTypes :
          LET before == StatusAt(project, s, type)
              after == StatusAt(project', s, type)
          IN \/ after = before
             \/ after = "generating"
             \/ before = "generating" /\ after \in {"completed", "failed"}
             \/ after = "completed"
                   /\ event'.op \in {"uploadChange", "copyPreviousEndFrame"}]_vars

----------------------------------------------------------------------------
(* A project that comes back to the director stage after its first shot    *)
(* was filmed from a start frame alone: the shot has a completed start     *)
(* keyframe, no end keyframe and the interval its video request created    *)
(* (lines 167-175, 188).  The second shot has no keyframe yet or has both. *)

StoredClip == "vid://0"

FilmedShot(s) ==
    [id |-> s, actionSummary |-> Summary, cameraMovement |-> PanLeft,
     videoModel |-> NoUrl,
     keyframes |-> <<CompletedPair(s)[1]>>,
     interval |->
        [id |-> generateId(IntPrefix(s), 1),
         startKeyframeId |-> KfPrefix(s, "start"), endKeyframeId |-> EmptyId,
         duration |-> 10, motionStrength |-> 5,
         videoPrompt |-> buildVideoPrompt(Summary, PanLeft, DEFAULTS.videoModel, LangZh),
         videoUrl |-> StoredClip, status |-> "completed"]]

InitFilmed ==
    /\ \E scenario \in {"fresh", "produced"} :
          project = [shots |-> [s \in ShotIds |->
                                  IF s = 1 THEN FilmedShot(s)
                                  ELSE InitShots(scenario)[s]],
                     visualStyle |-> "live-action", language |-> LangZh]
    /\ activeShotId = 0
    /\ editModal = Null
    /\ batchProgress = Null
    /\ batch = IdleBatch
    /\ imgCalls = EmptyBag
    /\ vidCalls = EmptyBag
    /\ uploads = EmptyBag
    /\ ops = 0
    /\ event = Event("init", 0, "", "", NoAlert)
    /\ calc = NoCalc

SpecFilmed == InitFilmed /\ [][Next]_vars

\* C32: whenever a shot's interval exists, its startKeyframeId is the id of
\* the shot's start keyframe and its endKeyframeId the id of the shot's end
\* keyframe (empty when the shot has none) as of the most recent video
\* request, also when the interval was there before the end keyframe was
\* first created or before a keyframe was replaced.
C32_IntervalNamesCurrentKeyframes ==
    [][\A s \in ShotIds :
          ( /\ handleGenerateVideo(s)
            /\ Truthy(ImageOf(KeyframeAt(project, s, "start"))) )
          => LET sKf == KeyframeAt(project, s, "start")
                 eKf == KeyframeAt(project, s, "end")
                 int == IntervalAt(project', s)
             IN /\ int # Null
                /\ int.startKeyframeId = sKf.id
                /\ int.endKeyframeId = IF eKf # Null THEN eKf.id ELSE EmptyId]_vars

----------------------------------------------------------------------------
(* Regeneration by the batch loop of the single-file StageDirector *)

\* C33: in the batch loop of the single-file StageDirector, regenerating
\* start frames does not append layers to a prompt that already has them:
\* the start-keyframe prompt that a regenerate-all run stores for a shot is
\* the prompt that a further regenerate-all run on the unchanged shot
\* stores, so k runs store what one run stores.
C33_LegacyBatchRegenerationIdempotent ==
    [][\A c \in BagToSet(imgCalls), o \in ImageOutcomes :
          ( /\ legacyBatchImageResolved(c, o)
            /\ o.ok
            /\ batch.isRegenerate )
          => LET stored == ShotById(project', c.shot)
             IN \A now \in Times :
                  legacyBatchCall(stored, now).prompt
                      = KeyframeAt(project', c.shot, "start").visualPrompt]_vars

----------------------------------------------------------------------------
(* The enhanced prompt assembler: the copy of utils.ts whose                *)
(* buildKeyframePrompt lays the prompt out in ruled sections with bilingual *)
(* headings.  The headings and fixed blocks are named in ASCII; a rule is   *)
(* the line of box-drawing characters.  extractBasePrompt of that copy is   *)
(* the one above.                                                           *)

Rule == "----------------------------------"
StyleHeading == "[Visual Style heading] Visual Style"
MovementHeading == "[Camera Movement heading] Camera Movement"
GuideHeading == "[Composition Guide heading] Composition Guide"
StartFrameGuide == "[Start frame requirements] five lines"
EndFrameGuide == "[End frame requirements] five lines"
EnhancedSpecifications ==
    <<Rule, NL, "[Technical Specifications] ... [Visual Details] ... [Character Details] ... [Environment Details] ... [Mood & Atmosphere]",
      NL, NL, Rule, NL, "[Quality Assurance] six lines">>

buildKeyframePromptEnhanced(basePrompt, visualStyle, cameraMovement, frameType) ==
    basePrompt
    \o <<NL, NL, Rule, NL, StyleHeading, NL, StylePrompt(visualStyle), NL, NL>>
    \o <<Rule, NL, MovementHeading, NL>> \o cameraMovement
    \o <<" (", IF frameType = "start" THEN "Initial Frame" ELSE "Final Frame", ")", NL, NL>>
    \o <<GuideHeading, NL, cameraGuide(cameraMovement, frameType), NL, NL>>
    \o <<IF frameType = "start" THEN StartFrameGuide ELSE EndFrameGuide, NL, NL>>
    \o EnhancedSpecifications

InitEnhanced ==
    /\ \E basePrompt \in BaseTexts, cameraMovement \in Movements,
          frameType \in FrameTypes :
         calc = [fn |-> "enhanced", basePrompt |-> basePrompt,
                 cameraMovement |-> cameraMovement, frameType |-> frameType,
                 prompt |-> <<>>, extracted |-> <<>>, assembled |-> FALSE]
    /\ \E visualStyle \in Styles :
         project = [shots |-> <<>>, visualStyle |-> visualStyle, language |-> LangZh]
    /\ activeShotId = 0
    /\ editModal = Null
    /\ batchProgress = Null
    /\ batch = IdleBatch
    /\ imgCalls = EmptyBag
    /\ vidCalls = EmptyBag
    /\ uploads = EmptyBag
    /\ ops = 0
    /\ event = Event("init", 0, "", "", NoAlert)

\* the prompt is assembled and the base narrative is read back from it
assembleEnhanced ==
    /\ calc.fn = "enhanced"
    /\ ~calc.assembled
    /\ LET prompt == buildKeyframePromptEnhanced(calc.basePrompt, project.visualStyle,
                        calc.cameraMovement, calc.frameType)
       IN calc' = [calc EXCEPT !.prompt = prompt,
                               !.extracted = extractBasePrompt(prompt, <<"f">>),
                               !.assembled = TRUE]
    /\ event' = Event("assembleEnhanced", 0, calc.frameType, "", NoAlert)
    /\ UNCHANGED <<project, activeShotId, editModal, batchProgress, batch,
                   imgCalls, vidCalls, uploads, ops>>

NextEnhanced == assembleEnhanced

SpecEnhanced == InitEnhanced /\ [][NextEnhanced]_vars

\* C34: every prompt that the enhanced buildKeyframePrompt produces has the
\* visual-style marker that extractBasePrompt searches for right after the
\* base narrative, so extractBasePrompt gives back from an assembled prompt
\* exactly the base narrative it was built from.
C34_EnhancedPromptRoundTrip ==
    (calc.fn = "enhanced" /\ calc.assembled)
    => /\ SubSeq(calc.prompt, Len(calc.basePrompt) + 1,
                 Len(calc.basePrompt) + Len(Marker)) = Marker
       /\ calc.extracted = calc.basePrompt

OverriddenJustNow(s, type) ==
    /\ event.shot = s /\ event.type = type
    /\ \/ event.op = "uploadChange" /\ event.result = "completed"
       \/ event.op = "copyPreviousEndFrame" /\ event.result = "completed"
       \/ event.op = "saveEdit" /\ event.result = "keyframe"

\* C36: a manual override of a keyframe (an uploaded image, an image copied
\* from the previous shot, an edited prompt) is never replaced by the
\* outcome of a generation call that was started before the override: after
\* that call settles the keyframe still holds the overridden image and
\* prompt.
C36_OverrideSurvivesEarlierCall ==
    [][\A c \in BagToSet(imgCalls), o \in ImageOutcomes :
          ( /\ imageResolved(c, o) \/ batchImageResolved(c, o)
            /\ OverriddenJustNow(c.shot, c.type) )
          => /\ KeyframeAt(project', c.shot, c.type).imageUrl
                   = KeyframeAt(project, c.shot, c.type).imageUrl
             /\ KeyframeAt(project', c.shot, c.type).visualPrompt
                   = KeyframeAt(project, c.shot, c.type).visualPrompt]_vars

\* C37: once a shot's interval has a videoUrl, no later video regeneration
\* removes it: while a regeneration is 'generating' and after one has ended
\* 'failed' the interval still carries the clip of the last successful
\* generation, and only a later success replaces it.
C37_ClipSurvivesRegeneration ==
    [][\A s \in ShotIds :
          ( /\ IntervalAt(project, s) # Null
            /\ Truthy(IntervalAt(project, s).videoUrl) )
          => /\ IntervalAt(project', s) # Null
             /\ \/ IntervalAt(project', s).videoUrl = IntervalAt(project, s).videoUrl
                \/ /\ event'.op = "videoResolved" /\ event'.shot = s
                   /\ event'.result = "completed"
                   /\ IntervalAt(project', s).videoUrl \in VideoUrls
                   /\ IntervalAt(project', s).status = "completed"]_vars

\* the regeneration of a filmed shot has failed and the stored clip is
\* still there
C37_Witness ==
    /\ event.op = "videoResolved"
    /\ event.result \in {"failed", "handled"}
    /\ IntervalAt(project, event.shot) # Null
    /\ IntervalAt(project, event.shot).status = "failed"
    /\ IntervalAt(project, event.shot).videoUrl = StoredClip

\* a regeneration of a filmed shot is in flight next to the stored clip
C37_WitnessGenerating ==
    \E s \in ShotIds :
       /\ IntervalAt(project, s) # Null
       /\ IntervalAt(project, s).status = "generating"
       /\ IntervalAt(project, s).videoUrl = StoredClip
       /\ \E c \in BagToSet(vidCalls) : c.shot = s

----------------------------------------------------------------------------
(* The reference images as generateImage receives them *)

\* part_000 576-609: with reference images, and not for an outfit
\* variation, the request text says 'The FIRST image is the
\* Scene/Environment reference'
SaysFirstImageIsScene(referenceImages, isVariation) ==
    Len(referenceImages) > 0 /\ ~isVariation

\* C38: whenever a keyframe generation call passes a non-empty list of
\* reference images to generateImage, the first image of the list is the
\* reference image of the shot's scene, as the request text sent with the
\* images says.
C38_FirstImageIsSceneImage ==
    (/\ calc.fn = "refs" /\ calc.returned
     /\ SaysFirstImageIsScene(calc.images, FALSE))
    => /\ calc.scriptData # Null
       /\ FindScene(calc.scriptData, calc.shot.sceneId) # Null
       /\ calc.images[1] = FindScene(calc.scriptData, calc.shot.sceneId).referenceImage

----------------------------------------------------------------------------
(* The export stage.  Of the project it reads the number of shots and the  *)
(* number of shots whose interval has a videoUrl.                          *)

MaxExportShots == 201
MaxDownloads == 2

\* the quotients completed / total whose double, times 100, falls just
\* short of the half it stands for, so that Math.round rounds them down
ShortOfHalf ==
    {<<23, 40>>, <<46, 80>>, <<69, 120>>, <<92, 160>>,
     <<29, 200>>, <<57, 200>>, <<113, 200>>, <<115, 200>>}

\* Math.round((completed / total) * 100): to the nearest integer, a half up
MathRoundPercent(completed, total) ==
    IF <<completed, total>> \in ShortOfHalf
    THEN (200 * completed + total) \div (2 * total) - 1
    ELSE (200 * completed + total) \div (2 * total)

\* part_002 11-13
progress(completedShots, totalShots) ==
    IF totalShots > 0 THEN MathRoundPercent(completedShots, totalShots) ELSE 0

InitExport ==
    /\ \E totalShots \in 0..MaxExportShots :
         \E completedShots \in 0..totalShots :
            calc = [fn |-> "export", totalShots |-> totalShots,
                    completedShots |-> completedShots,
                    isDownloading |-> FALSE, phase |-> "idle", downloads |-> 0]
    /\ project = [shots |-> <<>>, visualStyle |-> "live-action", language |-> LangZh]
    /\ activeShotId = 0
    /\ editModal = Null
    /\ batchProgress = Null
    /\ batch = IdleBatch
    /\ imgCalls = EmptyBag
    /\ vidCalls = EmptyBag
    /\ uploads = EmptyBag
    /\ ops = 0
    /\ event = Event("init", 0, "", "", NoAlert)

ExportStep(op, result, alert) ==
    /\ event' = Event(op, 0, "", result, alert)
    /\ UNCHANGED <<project, activeShotId, editModal, batchProgress, batch,
                   imgCalls, vidCalls, uploads, ops>>

\* part_002 98-105: up to the await of downloadMasterVideo
handleDownloadMaster ==
    /\ calc.fn = "export"
    /\ calc.downloads < MaxDownloads
    /\ IF calc.isDownloading \/ progress(calc.completedShots, calc.totalShots) < 100
       THEN /\ calc' = calc
            /\ ExportStep("handleDownloadMaster", "ignored", NoAlert)
       ELSE /\ calc' = [calc EXCEPT !.isDownloading = TRUE, !.phase = "running",
                                    !.downloads = @ + 1]
            /\ ExportStep("handleDownloadMaster", "started", NoAlert)

\* part_002 105-122: downloadMasterVideo settles
downloadMasterVideoSettled(ok) ==
    /\ calc.fn = "export"
    /\ calc.phase = "running"
    /\ IF ok
       THEN /\ calc' = [calc EXCEPT !.phase = "done"]
            /\ ExportStep("downloadMasterVideoSettled", "completed", NoAlert)
       ELSE /\ calc' = [calc EXCEPT !.isDownloading = FALSE, !.phase = "idle"]
            /\ ExportStep("downloadMasterVideoSettled", "failed", "Export failed: error.message")

\* part_002 111-115: the timer set after a successful download fires
downloadResetElapsed ==
    /\ calc.fn = "export"
    /\ calc.phase = "done"
    /\ calc' = [calc EXCEPT !.isDownloading = FALSE, !.phase = "idle"]
    /\ ExportStep("downloadResetElapsed", "", NoAlert)

NextExport ==
    \/ handleDownloadMaster
    \/ \E ok \in BOOLEAN : downloadMasterVideoSettled(ok)
    \/ downloadResetElapsed

SpecExport == InitExport /\ [][NextExport]_vars

\* C39: the master-video download starts only when every shot of the
\* project has a video clip: for every number of shots total >= 1 and
\* every number completed < total the progress round(100 * completed /
\* total) is below 100 and handleDownloadMaster does nothing; and a second
\* download cannot start while one is running.
C39_DownloadOnlyWhenComplete ==
    [][handleDownloadMaster
         => /\ (calc.totalShots >= 1 /\ calc.completedShots < calc.totalShots)
                 => /\ progress(calc.completedShots, calc.totalShots) < 100
                    /\ calc' = calc
            /\ calc.isDownloading => calc' = calc]_vars

\* a second download cannot start while one is running, nor in the two
\* seconds after it has succeeded
C39_OneDownloadAtATime ==
    [][(handleDownloadMaster /\ calc.isDownloading) => calc' = calc]_vars

----------------------------------------------------------------------------
(* The preview over every NineGridData value.  The statuses are those of   *)
(* the data model: pending, generating, completed, failed; imageUrl is     *)
(* optional.                                                               *)

NineGridValues ==
    {Null} \cup
    {[status |-> status, panels |-> PanelsOf(NINE_GRID.panelCount), imageUrl |-> imageUrl] :
        status \in {"pending", "generating", "completed", "failed"},
        imageUrl \in {NoUrl, GridUrl}}

InitPreview ==
    /\ \E nineGrid \in NineGridValues, isOpen \in BOOLEAN :
         calc = [fn |-> "nineGrid", nineGrid |-> nineGrid, isOpen |-> isOpen,
                 planning |-> FALSE, rendering |-> FALSE, renderRequests |-> 0,
                 planned |-> [kind |-> "none", count |-> 0], runs |-> 0,
                 selectedPanel |-> NoSelection, adopted |-> [kind |-> "none"]]
    /\ project = [shots |-> <<>>, visualStyle |-> "live-action", language |-> LangZh]
    /\ activeShotId = 0
    /\ editModal = Null
    /\ batchProgress = Null
    /\ batch = IdleBatch
    /\ imgCalls = EmptyBag
    /\ vidCalls = EmptyBag
    /\ uploads = EmptyBag
    /\ ops = 0
    /\ event = Event("init", 0, "", "", NoAlert)

\* NineGridPreview.tsx 29, 88-123, 261-280: the views the component renders
ShownViews ==
    IF ~calc.isOpen THEN {}
    ELSE {view \in {"initial", "generating", "failed", "completed"} :
            \/ view = "generating" /\ isGenerating
            \/ view = "failed" /\ hasFailed
            \/ view = "completed" /\ isCompleted /\ calc.nineGrid # Null
            \/ view = "initial" /\ calc.nineGrid = Null}

\* NineGridPreview.tsx 67-78, 110-117, 271-278: a button that calls
\* onRegenerate is rendered
OffersRegenerate ==
    /\ calc.isOpen
    /\ isCompleted \/ hasFailed \/ calc.nineGrid = Null

\* the parent shows the preview, and onClose (lines 49, 80, 235)
openPreview ==
    /\ calc.fn = "nineGrid"
    /\ ~calc.isOpen
    /\ calc' = [calc EXCEPT !.isOpen = TRUE]
    /\ GridStep("openPreview")

onClose ==
    /\ calc.fn = "nineGrid"
    /\ calc.isOpen
    /\ calc' = [calc EXCEPT !.isOpen = FALSE]
    /\ GridStep("onClose")

NextPreview ==
    \/ openPreview
    \/ onClose
    \/ NextNineGrid

SpecPreview == InitPreview /\ [][NextPreview]_vars

\* C40: for every NineGridData value (absent, or with status pending,
\* generating, completed with or without image, failed) the open preview
\* shows exactly one of its four views (initial, generating, failed,
\* completed), and in every state other than 'generating' it offers the
\* user a way to start or restart generation.
C40_OneViewAndAWayToGenerate ==
    (calc.fn = "nineGrid" /\ calc.isOpen)
    => /\ Cardinality(ShownViews) = 1
       /\ ~isGenerating => OffersRegenerate

====
